---------------------------- MODULE Spec2Model ----------------------------
(***************************************************************************)
(* A model of the Go JSON-RPC-over-IPC server: the per-connection engine   *)
(* (connection.go: Serve / handleNext / handleRequest / Close), its        *)
(* notifier, and the server shell (server.go: acceptLoop /                 *)
(* handleConnection / Stop) with the broadcast membership set.             *)
(*                                                                         *)
(* Spec      one connection, its peer, concurrent Close callers and a      *)
(*           background notifier.                                          *)
(* FairSpec  Spec with weak fairness on the steps the Go scheduler runs    *)
(*           (every runnable goroutine eventually takes its next step and  *)
(*           every handler eventually returns).                            *)
(* ServeFairSpec  as FairSpec, but a handler may run for ever.             *)
(* CloseSpec the part of Spec in which no request line arrives: every      *)
(*           Close() caller against Serve, the notifier and cancellation.  *)
(* SerialSpec  the part of Spec in which only Serve calls Close(): the     *)
(*           peer's lines, the handlers and the notifier.                  *)
(* LineSpec  SerialSpec without the notifier, the peer's lines carrying    *)
(*           any combination of result and error members.                  *)
(* MwSpec, RegSpec, WrSpec, BcSpec  the middleware chain, the handler      *)
(*           registry, the write path of a connection and Broadcast, each  *)
(*           on its own.                                                   *)
(* CtxSpec   Spec with the peer writing requests only and no notifier:     *)
(*           handlers running while Close() is called.                     *)
(* ErrSpec, ChainSpec, MsgSpec, StopSpec, SetSpec, CodecSpec, FrameSpec,   *)
(* TableSpec  ToRPCError, Chain, the Message predicates, Server.Stop, the  *)
(*           broadcast set, the codec's two locks, ReadMessage and the     *)
(*           registry used from one goroutine, each on its own.            *)
(* CodeSpec  ErrorFromCode applied to codes in and around the reserved     *)
(*           band.                                                         *)
(* ShareSpec registrations of handlers and middleware on a server that     *)
(*           has connections, and the requests dispatched afterwards.      *)
(* NodeSpec  the Node client (node/src/client.ts): connect, disconnect,    *)
(*           request, the events of its sockets and its timers.            *)
(***************************************************************************)
EXTENDS Integers, Sequences, FiniteSets, TLC

(***************************************************************************)
(* Bounds of the model.                                                    *)
(***************************************************************************)
BandMargin == 3      \* codes tried on either side of the reserved band
MaxAttempts == 2     \* config.maxReconnectAttempts of the Node client
MaxSockets == 3      \* sockets the Node client opens
MaxRequests == 2     \* requests the Node client sends
MaxBytes == 6        \* bytes in the stream given to ReadMessage
MaxCalls == 3        \* Register / Unregister / Clear calls on the registry
MaxLines == 2        \* lines the peer sends on the connection
MaxMw == 2           \* middleware in a list
MaxNotify == 1       \* Notify calls made by the background notifier
NumStoppers == 2     \* goroutines that call Server.Stop
NumClosers == 1      \* goroutines other than Serve that call Close()
MaxConns == 2        \* clients that dial the server
MaxReqs == 1         \* request lines a client writes
MaxWrites == 2       \* runtime modifications of the handler registry
NumLookers == 2      \* goroutines that look a method up in the registry
NumReaders == 2      \* goroutines that call ReadMessage on one codec
NumNotifiers == 2    \* goroutines that call Notify on the connection

(***************************************************************************)
(* Program constants (errors.go).                                          *)
(***************************************************************************)
ParseError == -32700
InvalidRequest == -32600
MethodNotFound == -32601
InternalError == -32603
AppError == 1          \* a handler's own RPCError code

Null == 0              \* JSON null / absent id
\* A line that json.Unmarshal rejects.
Malformed == [json |-> FALSE, method |-> "", id |-> Null,
              result |-> FALSE, error |-> FALSE]

\* Methods a line may name; "" is an absent method.
Methods == {"", "echo", "nosuch"}
\* The registry's content: NewHandlerRegistry + RegisterHandler("echo", h).
Registered == {"echo"}

\* What a handler invocation may do.
\*   ok      returns a JSON-serialisable result
\*   badval  returns a result json.Marshal rejects (a channel, NaN, a func)
\*   err     returns a plain error
\*   rpcerr  returns its own *RPCError
\*   panic   panics
Outcomes == {"ok", "badval", "err", "rpcerr", "panic"}

\* The middleware lists a server may be configured with.
MiddlewareConfigs == {<<>>, <<"recovery">>}

VARIABLES
    middleware,   \* Connection.middleware
    inbox,        \* lines written by the peer and not yet read by the codec
    sent,         \* number of lines the peer has written so far
    peerClosed,   \* the peer closed its end of the stream
    pc,           \* position of the Serve goroutine
    running,      \* requests whose handler has been invoked and has not returned
    nread,        \* number of lines ReadJSON has returned so far
    out,          \* messages written to the stream, in order
    settled,      \* requests for which handleRequest has returned, with what
                  \* their handler did
    closedCh,     \* the channel c.closed is closed
    ctxDone,      \* c.ctx is cancelled
    cancels,      \* number of c.cancel() calls made by Close
    nmCloses,     \* number of notifier.Close() calls
    nmClosed,     \* NotificationManager.closed
    connCloses,   \* number of conn.Close() calls on the underlying stream
    once,         \* c.closeOnce: "fresh", "running", "done"
    closer,       \* position of every Close() caller
    calls,        \* Close() calls started by every caller (saturating at 2)
    panics,       \* panics raised inside Close (close of a closed channel)
    panicking,    \* the Serve goroutine is unwinding a handler panic
    crashed,      \* an unrecovered panic ended the process
    npc,          \* position of the notifier goroutine in Send
    nsends,       \* Notify calls started so far
    faultSends    \* error responses attempted after a transport read failure (saturating)

connVars == <<middleware, inbox, sent, peerClosed, pc, running, nread, out,
              settled, closedCh, ctxDone, cancels, nmCloses, nmClosed,
              connCloses, once, closer, calls, panics, panicking, crashed,
              npc, nsends, faultSends>>

\* The server shell (server.go) and its clients.
VARIABLES
    apc,          \* position of the goroutine in Start / acceptLoop
    listener,     \* s.listener: "none", "open", "closed"
    shutdownCh,   \* the channel s.shutdownCh is closed
    client,       \* every client: "new", "dialed", "connected", "gone", "refused"
    accepted,     \* connection returned by Accept and not yet handed to a goroutine
    wg,           \* counter of s.wg
    hpc,          \* position of every handleConnection goroutine
    reqs,         \* request lines every client has written and the server has not read
    csent,        \* request lines every client has written so far
    cclosed,      \* Close() has run on the connection
    connections,  \* keys of s.connections
    members,      \* keys of s.broadcast.connections
    onConnect,    \* OnConnect calls per connection
    onDisconnect, \* OnDisconnect calls per connection
    stpc,         \* position of the goroutine in Stop
    stopCtxDone,  \* the ctx passed to Stop is done
    doneCh,       \* Stop's channel "done" is closed (s.wg.Wait returned)
    forced,       \* connections Stop force-closed
    srvCtxDone,   \* s.ctx is cancelled
    lateStart     \* Start() was called after Stop() had returned

srvVars == <<apc, listener, shutdownCh, client, accepted, wg, hpc, reqs, csent,
             cclosed, connections, members, onConnect, onDisconnect, stpc,
             stopCtxDone, doneCh, forced, srvCtxDone, lateStart>>

\* One call of a composed handler (middleware chain around a handler).
VARIABLES
    chain,        \* the middleware passed to Chain, outermost first
    loggerPanics, \* the Logger given to LoggingMiddleware panics
    mwpc,         \* position of the goroutine that calls the composed handler
    ipc,          \* position of the goroutine TimeoutMiddleware starts
    resultChan,   \* content of TimeoutMiddleware's resultChan (capacity 1)
    carried,      \* the pair the started goroutine is about to send on resultChan
    handled,      \* what the base handler did, once it has run
    tctx,         \* why the timeout context is done: "none", "deadline", "cancel"
    mwlog,        \* order of the events of the call
    ret,          \* what the composed handler returned to handleRequest
    mwcrashed,    \* a panic reached the top of a goroutine: the process died
    responses     \* responses handleRequest sent for the request

mwVars == <<chain, loggerPanics, mwpc, ipc, resultChan, carried, handled,
            tctx, mwlog, ret, mwcrashed, responses>>

\* The handler registry shared by every connection.
VARIABLES
    handlers,     \* HandlerRegistry.handlers[m] for one method m: a handler or "absent"
    wop,          \* the write the registering goroutine has in progress
    nwrites,      \* writes completed so far
    lop,          \* the read every looking-up goroutine has in progress
    raced,        \* the read in progress overlapped a write
    seen,         \* values the map held while the read was in progress
    got,          \* what the goroutine's lookup returned
    regcrashed    \* the runtime stopped the process on a concurrent map access

regVars == <<handlers, wop, nwrites, lop, raced, seen, got, regcrashed>>

\* The write path of one connection.
VARIABLES
    wpos,         \* position of every writing goroutine
    wres,         \* what WriteMessage is about to return to the goroutine
    sres,         \* what the goroutine's last Send returned
    late,         \* the goroutine's Send began after NotificationManager.Close returned
    writeMu,      \* holder of LineDelimitedCodec.writeMu
    nmMu,         \* holder of NotificationManager.mu
    buf,          \* chunks in the codec's bufio.Writer
    wire,         \* chunks on the stream after the last complete message
    sclosed,      \* the stream fails writes
    werr,         \* the bufio.Writer's sticky error
    wclosed,      \* NotificationManager.closed
    ncloses,      \* NotificationManager.Close calls (saturating at 2)
    latewrites    \* a Send begun after Close reached the codec (0 or 1)

wrVars == <<wpos, wres, sres, late, writeMu, nmMu, buf, wire,
            sclosed, werr, wclosed, ncloses, latewrites>>

\* The broadcast manager and one call of Broadcast.
VARIABLES
    bmembers,     \* keys of BroadcastManager.connections
    bclosed,      \* members whose Close() has run (notifier closed)
    bdead,        \* members whose stream fails writes
    bpc,          \* position of the goroutine in Broadcast
    bcur,         \* the connection the Range callback is sending to
    bparams,      \* json.Marshal accepts the params of the broadcast
    bstable,      \* members since Broadcast was called
    visited,      \* keys Range has handed to the callback
    succeeded,    \* connections whose Notify returned nil
    count,        \* Broadcast's count
    recv          \* notifications written to every connection's stream

bcVars == <<bmembers, bclosed, bdead, bpc, bcur, bparams, bstable, visited,
            succeeded, count, recv>>

\* handleRequest after the handler returned an error.
VARIABLES
    epc,          \* position of handleRequest: "handle", "error", "sent"
    eid,          \* id of the request being handled
    estream,      \* the stream accepts writes
    eerr,         \* the error the handler returned
    eout          \* responses written on the stream

errVars == <<epc, eid, estream, eerr, eout>>

\* Composition of a middleware list around a handler, and one call of it.
VARIABLES
    cvia,         \* who composes: "Chain" or "handleRequest"
    clist,        \* the middleware list, in registration order
    ci,           \* the loop variable i (1-based; 0 when the loop is over)
    chandler,     \* the handler built so far: positions of its wrappers, outermost first
    cpc,          \* "compose", "down" (pre-logic), "up" (post-logic), "done"
    cdepth,       \* wrappers entered and not yet left
    clog          \* what the wrappers and the base handler appended to the shared log

chainVars == <<cvia, clist, ci, chandler, cpc, cdepth, clog>>

\* Classification of one decoded Message.
VARIABLES
    mpc,          \* "decoded", then "classified"
    message,          \* the Message
    verdict       \* what the five predicates returned for it

msgVars == <<mpc, message, verdict>>

\* Server.Stop called by several goroutines, several times each.
VARIABLES
    stopOnce,        \* s.stopOnce: "fresh", "running", "done"
    stopper,         \* position of every goroutine in Stop
    stopCalls,       \* Stop calls every goroutine has made (saturating at 2)
    stopErr,         \* the local variable err of the goroutine's current call
    stopRet,         \* what the goroutine's last call returned
    ranShutdown,     \* the goroutine's current or last call ran the function given to stopOnce.Do
    listenerFails,   \* s.listener.Close() returns an error
    cleanupFails,    \* CleanupSocket returns an error
    wgZero,          \* every handleConnection goroutine has returned
    stopDeadline,    \* the context given to Stop is done
    shutdownCloses,  \* close(s.shutdownCh) executed
    listenerCloses,  \* s.listener.Close() calls
    waits,           \* waits for the connections completed
    srvCancels,      \* s.cancel() calls
    cleanups,        \* CleanupSocket calls
    stopPanics       \* panics raised inside Stop

stopVars == <<stopOnce, stopper, stopCalls, stopErr, stopRet, ranShutdown,
              listenerFails, cleanupFails, wgZero, stopDeadline,
              shutdownCloses, listenerCloses, waits, srvCancels, cleanups,
              stopPanics>>

\* The membership of a BroadcastManager under Add, Remove, Count and Clear.
VARIABLES
    bmKeys,        \* keys of BroadcastManager.connections
    adds,          \* Add calls for every connection since it was last deleted (saturating at 2)
    bmClosed,      \* connections the manager has closed
    countPos,      \* position of the goroutine in Count: "idle", "range", "returned"
    countVisited,  \* keys Count's Range has handed to the callback
    countStable,   \* keys in the map ever since Count was called
    countEver,     \* keys in the map at some moment since Count was called
    countSizes,    \* sizes the membership has had since Count was called
    countN,        \* Count's local variable count
    countRet,      \* what Count returned (-1 until it returns)
    clearPos,      \* position of the goroutine in Clear: "idle", "range", "returned"
    clearVisited,  \* keys Clear's Range has handed to the callback
    clearStable,   \* keys in the map ever since Clear was called
    clearQuiet     \* no Add has run since Clear was called

setVars == <<bmKeys, adds, bmClosed, countPos, countVisited, countStable,
             countEver, countSizes, countN, countRet, clearPos,
             clearVisited, clearStable, clearQuiet>>

\* The two directions of one LineDelimitedCodec.
VARIABLES
    readMu,       \* holder of LineDelimitedCodec.readMu
    codecWriteMu, \* holder of LineDelimitedCodec.writeMu
    rdpos,        \* position of every goroutine in ReadMessage
    wtpos,        \* position of every goroutine in WriteMessage
    arrived,      \* lines the peer has written so far
    unread,       \* lines in the stream that no ReadMessage has returned
    room,         \* the stream takes bytes (the peer is reading)
    wroteBlocked, \* a Flush went through while a ReadMessage was waiting for input
    readBlocked   \* a ReadBytes returned while a WriteMessage was waiting for room

codecVars == <<readMu, codecWriteMu, rdpos, wtpos, arrived, unread, room,
               wroteBlocked, readBlocked>>

\* ReadMessage called again and again on one stream.
VARIABLES
    stream,       \* the bytes the peer wrote before closing its end
    pending,      \* the bytes of the stream not yet consumed by ReadBytes
    messages,     \* what the ReadMessage calls have returned with a nil error
    readErr       \* the last ReadMessage returned an error

frameVars == <<stream, pending, messages, readErr>>

\* One registry used by one goroutine, call after call.
VARIABLES
    table,        \* HandlerRegistry.handlers, every method name mapped to its
                  \* handler or to "absent"
    history,      \* the Register / Unregister / Clear calls made, in order
    lookup        \* what the last Get returned, and after how many calls

tableVars == <<table, history, lookup>>

\* ErrorFromCode applied to one code.
VARIABLES
    askedCode,    \* the code ErrorFromCode is called with
    fromCode      \* the *RPCError it returned

codeVars == <<askedCode, fromCode>>

\* The Node client (node/src/client.ts) and the sockets it opens.
VARIABLES
    autoReconnect,      \* config.autoReconnect
    clientState,        \* JSONRPCClient.state
    socket,             \* this.socket: the socket opened last, 0 for null
    nsock,              \* sockets created so far
    sockSt,             \* every socket: "none", "connecting", "open", "ended"
                        \* ('end' delivered), "closing" (destroyed or failed,
                        \* 'close' to come), "closed"
    connTimer,          \* the connection timeout of every socket is armed
    reconnectAttempts,  \* this.reconnectAttempts
    rtimers,            \* reconnect timers scheduled and not yet fired
    requestId,          \* this.requestId
    issued,             \* the ids given to requests, in order
    pendingRequests,    \* keys of this.pendingRequests
    reqTimer,           \* requests whose timeout is armed
    outcome,            \* for every id, how its promise was settled, in order
    appClosed,          \* disconnect() took effect and the application has
                        \* not called connect() since: from which state, and
                        \* on which socket
    sinceClose,         \* events the client emitted after that disconnect()
    openedSince,        \* a socket was created after that disconnect()
    lostConn,           \* an established connection was lost, none was
                        \* established since and the application did not
                        \* call connect() or disconnect()
    tries               \* connect() calls made by reconnect timers since then

nodeVars == <<autoReconnect, clientState, socket, nsock, sockSt, connTimer,
              reconnectAttempts, rtimers, requestId, issued, pendingRequests,
              reqTimer, outcome, appClosed, sinceClose, openedSince, lostConn,
              tries>>

\* Registrations on a running server and the requests dispatched after them.
VARIABLES
    sMiddleware,  \* s.middleware, in registration order
    sHandlers,    \* s.registry.handlers, every method name mapped to its
                  \* handler or to "absent"
    served,       \* the connections handleConnection has built
    cMiddleware,  \* c.middleware of every connection
    dispatched    \* the last request handled: its connection and method, the
                  \* handler found and the middleware wrapped around it

shareVars == <<sMiddleware, sHandlers, served, cMiddleware, dispatched>>

\* The parts modelled one function at a time.
fnVars == <<errVars, chainVars, msgVars, stopVars, setVars, codecVars, frameVars, tableVars, codeVars, nodeVars, shareVars>>

baseVars == <<connVars, srvVars, mwVars, regVars, wrVars, bcVars>>

auxVars == <<mwVars, regVars, wrVars, bcVars, fnVars>>

\* What the actions of each part leave alone.
mwRest == <<connVars, srvVars, regVars, wrVars, bcVars, fnVars>>

regRest == <<connVars, srvVars, mwVars, wrVars, bcVars, fnVars>>

wrRest == <<connVars, srvVars, mwVars, regVars, bcVars, fnVars>>

bcRest == <<connVars, srvVars, mwVars, regVars, wrVars, fnVars>>

errRest == <<baseVars, chainVars, msgVars, stopVars, setVars, codecVars, frameVars, tableVars, codeVars, nodeVars, shareVars>>

chainRest == <<baseVars, errVars, msgVars, stopVars, setVars, codecVars, frameVars, tableVars, codeVars, nodeVars, shareVars>>

msgRest == <<baseVars, errVars, chainVars, stopVars, setVars, codecVars, frameVars, tableVars, codeVars, nodeVars, shareVars>>

stopRest == <<baseVars, errVars, chainVars, msgVars, setVars, codecVars, frameVars, tableVars, codeVars, nodeVars, shareVars>>

setRest == <<baseVars, errVars, chainVars, msgVars, stopVars, codecVars, frameVars, tableVars, codeVars, nodeVars, shareVars>>

codecRest == <<baseVars, errVars, chainVars, msgVars, stopVars, setVars, frameVars, tableVars, codeVars, nodeVars, shareVars>>

frameRest == <<baseVars, errVars, chainVars, msgVars, stopVars, setVars, codecVars, tableVars, codeVars, nodeVars, shareVars>>

tableRest == <<baseVars, errVars, chainVars, msgVars, stopVars, setVars, codecVars, frameVars, codeVars, nodeVars, shareVars>>

codeRest == <<baseVars, errVars, chainVars, msgVars, stopVars, setVars, codecVars, frameVars, tableVars, nodeVars, shareVars>>

nodeRest == <<baseVars, errVars, chainVars, msgVars, stopVars, setVars, codecVars, frameVars, tableVars, codeVars, shareVars>>

shareRest == <<baseVars, errVars, chainVars, msgVars, stopVars, setVars, codecVars, frameVars, tableVars, codeVars, nodeVars>>

vars == <<connVars, srvVars, auxVars>>

\* Close() callers: 0 is Serve's own deferred call, the others are goroutines
\* holding the connection (server shutdown, application code).
ServeCaller == 0
Closers == 1..NumClosers
CloseCallers == {ServeCaller} \cup Closers

IsClosed == closedCh
ConnClosed == connCloses > 0

(***************************************************************************)
(* types.go: classification of a decoded Message.                          *)
(***************************************************************************)
IsRequest(m) == m.method # "" /\ m.id # Null

\* IsNotification with the id test inverted: a line with a method and no id
\* is not taken for a notification.
IsNotificationNeedsId(m) == m.method # "" /\ m.id # Null

IsNotification(m) == m.method # "" /\ m.id = Null

\* Lines the peer may write: the k-th line carries id k or no id, and
\* neither a result nor an error member.
Lines(k) ==
    {Malformed} \cup [json : {TRUE}, method : Methods, id : {Null, k},
                      result : {FALSE}, error : {FALSE}]

\* The same lines with any combination of a result and an error member,
\* which Message decodes and IsRequest/IsNotification do not look at.
ShapedLines(k) ==
    {Malformed} \cup [json : {TRUE}, method : Methods, id : {Null, k},
                      result : BOOLEAN, error : BOOLEAN]

(***************************************************************************)
(* codec: WriteJSON/WriteMessage.  A write on a stream that was closed     *)
(* locally or whose peer is gone fails and puts nothing on the stream.     *)
(***************************************************************************)
StreamWritable == ~ConnClosed /\ ~peerClosed

WriteJSON(o, msg) == IF StreamWritable THEN Append(o, msg) ELSE o

\* What is written on the stream; "for" is the number of the line a response
\* answers and "data" the method named in the error's data member ("" when
\* the data is something else).
Response(id, line) ==
    [kind |-> "result", id |-> id, code |-> 0, for |-> line, data |-> ""]

ErrorResponse(id, code, line) ==
    [kind |-> "error", id |-> id, code |-> code, for |-> line, data |-> ""]

\* errors: NewMethodNotFoundError(method), data = {"method": method}.
NewMethodNotFoundError(id, method, line) ==
    [kind |-> "error", id |-> id, code |-> MethodNotFound, for |-> line,
     data |-> method]

Notification ==
    [kind |-> "notification", id |-> Null, code |-> 0, for |-> 0, data |-> ""]

\* connection.go sendResult: json.Marshal of an unserialisable result fails
\* and nothing is written; the caller ignores the returned error.
sendResult(o, id, line, marshalable) ==
    IF marshalable THEN WriteJSON(o, Response(id, line)) ELSE o

sendError(o, id, code, line) == WriteJSON(o, ErrorResponse(id, code, line))

Min(a, b) == IF a < b THEN a ELSE b

(***************************************************************************)
(* newConnection: the state right after construction, before Serve runs.   *)
(***************************************************************************)
ConnInit ==
    /\ middleware \in MiddlewareConfigs
    /\ inbox = <<>>
    /\ sent = 0
    /\ peerClosed = FALSE
    /\ pc = "select"
    /\ running = {}
    /\ nread = 0
    /\ out = <<>>
    /\ settled = {}
    /\ closedCh = FALSE
    /\ ctxDone = FALSE
    /\ cancels = 0
    /\ nmCloses = 0
    /\ nmClosed = FALSE
    /\ connCloses = 0
    /\ once = "fresh"
    /\ closer = [t \in CloseCallers |-> "idle"]
    /\ calls = [t \in CloseCallers |-> 0]
    /\ panics = 0
    /\ panicking = FALSE
    /\ crashed = FALSE
    /\ npc = "idle"
    /\ nsends = 0
    /\ faultSends = 0

(***************************************************************************)
(* The peer: writes lines, and may close its end.                          *)
(***************************************************************************)
PeerSend ==
    /\ ~crashed /\ ~peerClosed /\ ~ConnClosed
    /\ sent < MaxLines
    /\ \E l \in Lines(sent + 1) : inbox' = Append(inbox, l)
    /\ sent' = sent + 1
    /\ UNCHANGED <<middleware, peerClosed, pc, running, nread, out, settled,
                   closedCh, ctxDone, cancels, nmCloses, nmClosed, connCloses,
                   once, closer, calls, panics, panicking, crashed, npc,
                   nsends, faultSends>>
    /\ UNCHANGED <<srvVars, auxVars>>

\* The peer writes a line that may carry result and error members.
PeerSendShaped ==
    /\ ~crashed /\ ~peerClosed /\ ~ConnClosed
    /\ sent < MaxLines
    /\ \E l \in ShapedLines(sent + 1) : inbox' = Append(inbox, l)
    /\ sent' = sent + 1
    /\ UNCHANGED <<middleware, peerClosed, pc, running, nread, out, settled,
                   closedCh, ctxDone, cancels, nmCloses, nmClosed, connCloses,
                   once, closer, calls, panics, panicking, crashed, npc,
                   nsends, faultSends>>
    /\ UNCHANGED <<srvVars, auxVars>>

\* The peer writes a request for a registered method.
PeerSendRequest ==
    /\ ~crashed /\ ~peerClosed /\ ~ConnClosed
    /\ sent < MaxLines
    /\ \E m \in Registered :
          inbox' = Append(inbox, [json |-> TRUE, method |-> m, id |-> sent + 1,
                                  result |-> FALSE, error |-> FALSE])
    /\ sent' = sent + 1
    /\ UNCHANGED <<middleware, peerClosed, pc, running, nread, out, settled,
                   closedCh, ctxDone, cancels, nmCloses, nmClosed, connCloses,
                   once, closer, calls, panics, panicking, crashed, npc,
                   nsends, faultSends>>
    /\ UNCHANGED <<srvVars, auxVars>>

PeerClose ==
    /\ ~crashed /\ ~peerClosed
    /\ peerClosed' = TRUE
    /\ UNCHANGED <<middleware, inbox, sent, pc, running, nread, out, settled,
                   closedCh, ctxDone, cancels, nmCloses, nmClosed, connCloses,
                   once, closer, calls, panics, panicking, crashed, npc,
                   nsends, faultSends>>
    /\ UNCHANGED <<srvVars, auxVars>>

(***************************************************************************)
(* Serve: the select at the top of the loop.                               *)
(***************************************************************************)
ServeSelect ==
    /\ ~crashed /\ pc = "select"
    /\ pc' = IF ctxDone \/ IsClosed THEN "defer" ELSE "read"
    /\ UNCHANGED <<middleware, inbox, sent, peerClosed, running, nread, out,
                   settled, closedCh, ctxDone, cancels, nmCloses, nmClosed,
                   connCloses, once, closer, calls, panics, panicking,
                   crashed, npc, nsends, faultSends>>
    /\ UNCHANGED <<srvVars, auxVars>>

(***************************************************************************)
(* handleNext, when ReadJSON fails at the transport: ReadMessage wraps     *)
(* every read error, io.EOF included ("read error: %w"), so the            *)
(* err == io.EOF test is false: a ParseError response is attempted,        *)
(* handleNext returns a non-EOF error and Serve continues its loop.        *)
(***************************************************************************)
ReadFault == ConnClosed \/ (peerClosed /\ inbox = <<>>)

ServeReadFault ==
    /\ ~crashed /\ pc = "read"
    /\ ReadFault
    /\ out' = sendError(out, Null, ParseError, 0)
    /\ faultSends' = Min(faultSends + 1, 2)
    /\ pc' = "select"
    /\ UNCHANGED <<middleware, inbox, sent, peerClosed, running, nread,
                   settled, closedCh, ctxDone, cancels, nmCloses, nmClosed,
                   connCloses, once, closer, calls, panics, panicking,
                   crashed, npc, nsends>>
    /\ UNCHANGED <<srvVars, auxVars>>

(***************************************************************************)
(* handleNext on a line: parse, classify, dispatch.  A request for a       *)
(* registered method invokes the (middleware-wrapped) handler on the Serve *)
(* goroutine, which then waits in handler.Handle.                          *)
(***************************************************************************)
\* handleRequest with the call of the handler moved to its own goroutine
\* (go handler.Handle ...): Serve goes on to the next line at once.
handleRequestAsync(l, n) ==
    IF l.method \in Registered
      THEN /\ running' = running \cup {[line |-> n, id |-> l.id]}
           /\ pc' = "select"
           /\ UNCHANGED <<out, settled>>
      ELSE /\ out' = WriteJSON(out, NewMethodNotFoundError(l.id, l.method, n))
           /\ settled' = settled \cup {[line |-> n, id |-> l.id, does |-> "nomethod"]}
           /\ pc' = "select"
           /\ UNCHANGED running

\* handleRequest without the registry lookup: the middleware-wrapped handler
\* is invoked whatever the method.
handleRequestUnchecked(l, n) ==
    /\ running' = running \cup {[line |-> n, id |-> l.id]}
    /\ pc' = "handle"
    /\ UNCHANGED <<out, settled>>

\* handleRequest, first half: registry lookup; an unknown method is answered
\* at once, otherwise the handler is invoked and Serve waits for it.
handleRequest(l, n) ==
    IF l.method \in Registered
      THEN /\ running' = running \cup {[line |-> n, id |-> l.id]}
           /\ pc' = "handle"
           /\ UNCHANGED <<out, settled>>
      ELSE /\ out' = WriteJSON(out, NewMethodNotFoundError(l.id, l.method, n))
           /\ settled' = settled \cup {[line |-> n, id |-> l.id, does |-> "nomethod"]}
           /\ pc' = "select"
           /\ UNCHANGED running

\* handleNext with a JSON parse failure treated like any other read
\* failure that ends the loop: nothing is sent and Serve returns.
ServeReadLineParseFatal ==
    /\ ~crashed /\ pc = "read"
    /\ inbox # <<>>
    /\ LET l == Head(inbox)
           n == nread + 1
       IN /\ inbox' = Tail(inbox)
          /\ nread' = n
          /\ IF ~l.json
               THEN /\ pc' = "defer"
                    /\ UNCHANGED <<out, running, settled>>
             ELSE IF IsRequest(l)
               THEN handleRequest(l, n)
             ELSE IF IsNotification(l)
               THEN /\ pc' = "select"
                    /\ UNCHANGED <<out, running, settled>>
             ELSE /\ out' = sendError(out, l.id, InvalidRequest, n)
                  /\ pc' = "select"
                  /\ UNCHANGED <<running, settled>>
    /\ UNCHANGED <<middleware, sent, peerClosed, closedCh, ctxDone, cancels,
                   nmCloses, nmClosed, connCloses, once, closer, calls,
                   panics, panicking, crashed, npc, nsends, faultSends>>
    /\ UNCHANGED <<srvVars, auxVars>>

ServeReadLine ==
    /\ ~crashed /\ pc = "read"
    /\ inbox # <<>>
    /\ LET l == Head(inbox)
           n == nread + 1
       IN /\ inbox' = Tail(inbox)
          /\ nread' = n
          /\ IF ~l.json
               THEN /\ out' = sendError(out, Null, ParseError, n)
                    /\ pc' = "select"
                    /\ UNCHANGED <<running, settled>>
             ELSE IF IsRequest(l)
               THEN handleRequest(l, n)
             ELSE IF IsNotification(l)
               THEN /\ pc' = "select"
                    /\ UNCHANGED <<out, running, settled>>
             ELSE /\ out' = sendError(out, l.id, InvalidRequest, n)
                  /\ pc' = "select"
                  /\ UNCHANGED <<running, settled>>
    /\ UNCHANGED <<middleware, sent, peerClosed, closedCh, ctxDone, cancels,
                   nmCloses, nmClosed, connCloses, once, closer, calls,
                   panics, panicking, crashed, npc, nsends, faultSends>>
    /\ UNCHANGED <<srvVars, auxVars>>

(***************************************************************************)
(* handleRequest, second half: the composed handler returns and the        *)
(* response is sent.  MiddlewareResult is what the middleware chain makes  *)
(* of the handler's outcome: RecoveryMiddleware turns a panic into an      *)
(* InternalError; without it the panic leaves handler.Handle.              *)
(***************************************************************************)
MiddlewareResult(mw, o) ==
    IF o = "panic" /\ \E i \in DOMAIN mw : mw[i] = "recovery"
      THEN "err"
      ELSE o

\* ToRPCError: an *RPCError is passed through, any other error becomes
\* InternalError.
ToRPCErrorCode(o) == IF o = "rpcerr" THEN AppError ELSE InternalError

HandlerReturn ==
    /\ ~crashed /\ pc = "handle"
    /\ \E r \in running, o \in Outcomes :
         LET res == MiddlewareResult(middleware, o)
         IN IF res = "panic"
              THEN \* the panic unwinds handleRequest, handleNext and Serve;
                   \* Serve's deferred Close runs, then the process dies
                   /\ panicking' = TRUE
                   /\ pc' = "defer"
                   /\ running' = running \ {r}
                   /\ UNCHANGED <<out, settled>>
              ELSE /\ out' = IF res \in {"ok", "badval"}
                               THEN sendResult(out, r.id, r.line, res = "ok")
                               ELSE sendError(out, r.id, ToRPCErrorCode(res), r.line)
                   /\ running' = running \ {r}
                   /\ settled' = settled \cup {[line |-> r.line, id |-> r.id, does |-> o]}
                   /\ pc' = "select"
                   /\ UNCHANGED panicking
    /\ UNCHANGED <<middleware, inbox, sent, peerClosed, nread, closedCh,
                   ctxDone, cancels, nmCloses, nmClosed, connCloses, once,
                   closer, calls, panics, crashed, npc, nsends, faultSends>>
    /\ UNCHANGED <<srvVars, auxVars>>

(***************************************************************************)
(* Close: closeOnce.Do(f).  sync.Once runs f for the first caller; a       *)
(* caller arriving while f runs waits for it to finish; later callers      *)
(* return at once.                                                         *)
(***************************************************************************)
OnceEnterRacy(t) ==
    IF once # "done"
      THEN /\ once' = "running"
           /\ closer' = [closer EXCEPT ![t] = "f1"]
      ELSE /\ closer' = [closer EXCEPT ![t] = "returned"]
           /\ UNCHANGED once

OnceEnter(t) ==
    IF once = "fresh"
      THEN /\ once' = "running"
           /\ closer' = [closer EXCEPT ![t] = "f1"]
    ELSE IF once = "running"
      THEN /\ closer' = [closer EXCEPT ![t] = "wait"]
           /\ UNCHANGED once
    ELSE /\ closer' = [closer EXCEPT ![t] = "returned"]
         /\ UNCHANGED once

\* A goroutine calls c.Close().  Serve calls it once, from its defer.
CloseCall(t) ==
    /\ ~crashed
    /\ closer[t] \in {"idle", "returned"}
    /\ t = ServeCaller => (pc = "defer" /\ closer[t] = "idle")
    /\ calls' = [calls EXCEPT ![t] = Min(@ + 1, 2)]
    /\ OnceEnter(t)
    /\ UNCHANGED <<middleware, inbox, sent, peerClosed, pc, running, nread,
                   out, settled, closedCh, ctxDone, cancels, nmCloses,
                   nmClosed, connCloses, panics, panicking, crashed, npc,
                   nsends, faultSends>>
    /\ UNCHANGED <<srvVars, auxVars>>

\* close(c.closed); closing a closed channel panics.
CloseSignal(t) ==
    /\ ~crashed /\ closer[t] = "f1"
    /\ IF closedCh
         THEN /\ panics' = panics + 1
              /\ crashed' = TRUE
              /\ UNCHANGED <<closedCh, closer>>
         ELSE /\ closedCh' = TRUE
              /\ closer' = [closer EXCEPT ![t] = "f2"]
              /\ UNCHANGED <<panics, crashed>>
    /\ UNCHANGED <<middleware, inbox, sent, peerClosed, pc, running, nread,
                   out, settled, ctxDone, cancels, nmCloses, nmClosed,
                   connCloses, once, calls, panicking, npc, nsends,
                   faultSends>>
    /\ UNCHANGED <<srvVars, auxVars>>

\* Close without the cancellation.
CloseNoCancel(t) ==
    /\ ~crashed /\ closer[t] = "f2"
    /\ closer' = [closer EXCEPT ![t] = "f3"]
    /\ UNCHANGED <<middleware, inbox, sent, peerClosed, pc, running, nread,
                   out, settled, closedCh, ctxDone, cancels, nmCloses,
                   nmClosed, connCloses, once, calls, panics, panicking,
                   crashed, npc, nsends, faultSends>>
    /\ UNCHANGED <<srvVars, auxVars>>

\* c.cancel()
CloseCancel(t) ==
    /\ ~crashed /\ closer[t] = "f2"
    /\ ctxDone' = TRUE
    /\ cancels' = cancels + 1
    /\ closer' = [closer EXCEPT ![t] = "f3"]
    /\ UNCHANGED <<middleware, inbox, sent, peerClosed, pc, running, nread,
                   out, settled, closedCh, nmCloses, nmClosed, connCloses,
                   once, calls, panics, panicking, crashed, npc, nsends,
                   faultSends>>
    /\ UNCHANGED <<srvVars, auxVars>>

\* c.notifier.Close()
CloseNotifier(t) ==
    /\ ~crashed /\ closer[t] = "f3"
    /\ nmClosed' = TRUE
    /\ nmCloses' = nmCloses + 1
    /\ closer' = [closer EXCEPT ![t] = "f4"]
    /\ UNCHANGED <<middleware, inbox, sent, peerClosed, pc, running, nread,
                   out, settled, closedCh, ctxDone, cancels, connCloses,
                   once, calls, panics, panicking, crashed, npc, nsends,
                   faultSends>>
    /\ UNCHANGED <<srvVars, auxVars>>

\* c.conn.Close(); f returns, the Once is done and Close returns.
CloseStream(t) ==
    /\ ~crashed /\ closer[t] = "f4"
    /\ connCloses' = connCloses + 1
    /\ once' = "done"
    /\ closer' = [closer EXCEPT ![t] = "returned"]
    /\ UNCHANGED <<middleware, inbox, sent, peerClosed, pc, running, nread,
                   out, settled, closedCh, ctxDone, cancels, nmCloses,
                   nmClosed, calls, panics, panicking, crashed, npc, nsends,
                   faultSends>>
    /\ UNCHANGED <<srvVars, auxVars>>

\* A caller that found f running returns once f has finished.
CloseWait(t) ==
    /\ ~crashed /\ closer[t] = "wait"
    /\ once = "done"
    /\ closer' = [closer EXCEPT ![t] = "returned"]
    /\ UNCHANGED <<middleware, inbox, sent, peerClosed, pc, running, nread,
                   out, settled, closedCh, ctxDone, cancels, nmCloses,
                   nmClosed, connCloses, once, calls, panics, panicking,
                   crashed, npc, nsends, faultSends>>
    /\ UNCHANGED <<srvVars, auxVars>>

\* Serve returns after its deferred Close; an unrecovered handler panic
\* then reaches the top of the goroutine and ends the process.
ServeExit ==
    /\ ~crashed /\ pc = "defer"
    /\ closer[ServeCaller] = "returned"
    /\ IF panicking
         THEN crashed' = TRUE /\ pc' = "crashed"
         ELSE pc' = "done" /\ UNCHANGED crashed
    /\ UNCHANGED <<middleware, inbox, sent, peerClosed, running, nread, out,
                   settled, closedCh, ctxDone, cancels, nmCloses, nmClosed,
                   connCloses, once, closer, calls, panics, panicking, npc,
                   nsends, faultSends>>
    /\ UNCHANGED <<srvVars, auxVars>>

\* The owner of the connection's cancellation scope cancels c.ctx directly.
CancelCtx ==
    /\ ~crashed /\ ~ctxDone
    /\ ctxDone' = TRUE
    /\ UNCHANGED <<middleware, inbox, sent, peerClosed, pc, running, nread,
                   out, settled, closedCh, cancels, nmCloses, nmClosed,
                   connCloses, once, closer, calls, panics, panicking,
                   crashed, npc, nsends, faultSends>>
    /\ UNCHANGED <<srvVars, auxVars>>

(***************************************************************************)
(* Connection.Notify -> NotificationManager.Send, from a goroutine other   *)
(* than Serve: the closed check under closeMu, then the write under mu.    *)
(***************************************************************************)
NotifyCheck ==
    /\ ~crashed /\ npc = "idle"
    /\ nsends < MaxNotify
    /\ nsends' = nsends + 1
    /\ npc' = IF nmClosed THEN "idle" ELSE "write"
    /\ UNCHANGED <<middleware, inbox, sent, peerClosed, pc, running, nread,
                   out, settled, closedCh, ctxDone, cancels, nmCloses,
                   nmClosed, connCloses, once, closer, calls, panics,
                   panicking, crashed, faultSends>>
    /\ UNCHANGED <<srvVars, auxVars>>

NotifyWrite ==
    /\ ~crashed /\ npc = "write"
    /\ out' = WriteJSON(out, Notification)
    /\ npc' = "idle"
    /\ UNCHANGED <<middleware, inbox, sent, peerClosed, pc, running, nread,
                   settled, closedCh, ctxDone, cancels, nmCloses, nmClosed,
                   connCloses, once, closer, calls, panics, panicking,
                   crashed, nsends, faultSends>>
    /\ UNCHANGED <<srvVars, auxVars>>

(***************************************************************************)
(* Properties of the connection engine.                                    *)
(***************************************************************************)
Responses(line) ==
    {i \in DOMAIN out : out[i].kind \in {"result", "error"} /\ out[i].for = line}

\* Nothing but the requests themselves has disturbed the connection.
Undisturbed ==
    /\ ~peerClosed
    /\ ~ctxDone
    /\ \A t \in Closers : calls[t] = 0

Open == pc \in {"select", "read", "handle"} /\ ~IsClosed /\ ~crashed

\* C1: every valid request the connection has handled got exactly one
\* Response or ErrorResponse carrying its id, whatever the handler did
\* (stated for a stream that is still writable: the peer is there and the
\* connection was not closed).
C1_ExactlyOneResponse ==
    StreamWritable =>
        \A r \in settled :
            /\ Cardinality(Responses(r.line)) = 1
            /\ \A i \in Responses(r.line) : out[i].id = r.id

\* C2: a read that hits end-of-stream or a closed stream attempts no error
\* response and ends the Serve loop.
C2_ReadFaultEndsServe ==
    [][(pc = "read" /\ inbox = <<>> /\ (peerClosed \/ ConnClosed) /\ pc' # "read")
          => (faultSends' = faultSends /\ pc' = "defer")]_vars

\* C3: no single request terminates the connection: as long as the peer is
\* connected and nobody closed or cancelled the connection, it is Open.
C3_BadRequestKeepsOpen == Undisturbed => Open

\* C4: whatever the number and interleaving of Close() calls, the channel,
\* the context, the notifier and the stream are each closed exactly once,
\* no call panics, and IsClosed() holds once any call has returned.
C4_CloseIdempotent ==
    /\ panics = 0
    /\ cancels <= 1 /\ nmCloses <= 1 /\ connCloses <= 1
    /\ \A t \in CloseCallers :
          closer[t] = "returned" =>
             /\ IsClosed
             /\ cancels = 1 /\ nmCloses = 1 /\ connCloses = 1
             /\ ctxDone /\ nmClosed

\* Serve's deferred Close and another goroutine's two Close calls have all
\* returned.
C4_Witness ==
    /\ closer[ServeCaller] = "returned"
    /\ \E t \in Closers : closer[t] = "returned" /\ calls[t] = 2
    /\ connCloses = 1

\* C5: once the connection's context is cancelled (by Close or by its
\* owner), Serve returns.
C5_CancelEndsServe == ctxDone ~> (pc = "done" \/ crashed)

IsReply(m) == m.kind # "notification"

Pending(k) ==
    /\ k > nread /\ k <= nread + Len(inbox)
    /\ IsRequest(inbox[k - nread])
    /\ inbox[k - nread].method \in Registered

Dispatched(k) == \E r \in running \cup settled : r.line = k

Terminated == peerClosed \/ ctxDone \/ IsClosed \/ crashed \/ pc \in {"defer", "done", "crashed"}

\* C10: requests in flight on one connection are processed concurrently: a
\* request that has arrived is dispatched without waiting for the handler
\* of an earlier request to return.
C10_ConcurrentDispatch ==
    \A k \in 1..MaxLines : Pending(k) ~> (Dispatched(k) \/ Terminated)

(***************************************************************************)
(* The server shell.  Connections are numbered after the client that       *)
(* dialled them; 0 is "no connection".  Inside the server model a          *)
(* connection's Close() is one step (closeOnce makes it so) and its Serve  *)
(* loop reads request lines whose handler returns normally.                *)
(***************************************************************************)
Conns == 1..MaxConns
NoConn == 0

\* NewServer: the state before Start and Stop.
SrvInit ==
    /\ apc = "init"
    /\ listener = "none"
    /\ shutdownCh = FALSE
    /\ client = [c \in Conns |-> "new"]
    /\ accepted = NoConn
    /\ wg = 0
    /\ hpc = [c \in Conns |-> "none"]
    /\ reqs = [c \in Conns |-> 0]
    /\ csent = [c \in Conns |-> 0]
    /\ cclosed = [c \in Conns |-> FALSE]
    /\ connections = {}
    /\ members = {}
    /\ onConnect = [c \in Conns |-> 0]
    /\ onDisconnect = [c \in Conns |-> 0]
    /\ stpc = "idle"
    /\ stopCtxDone = FALSE
    /\ doneCh = FALSE
    /\ forced = {}
    /\ srvCtxDone = FALSE
    /\ lateStart = FALSE

\* Start: startOnce.Do: Listen, then acceptLoop.
StartCall ==
    /\ apc = "init"
    /\ listener' = "open"
    /\ apc' = "loop"
    /\ lateStart' = (stpc = "returned")
    /\ UNCHANGED <<shutdownCh, client, accepted, wg, hpc, reqs, csent,
                   cclosed, connections, members, onConnect, onDisconnect,
                   stpc, stopCtxDone, doneCh, forced, srvCtxDone>>
    /\ UNCHANGED <<connVars, auxVars>>

\* acceptLoop: the select on shutdownCh at the top of the loop.
AcceptCheck ==
    /\ apc = "loop"
    /\ apc' = IF shutdownCh THEN "done" ELSE "accept"
    /\ UNCHANGED <<listener, shutdownCh, client, accepted, wg, hpc, reqs,
                   csent, cclosed, connections, members, onConnect,
                   onDisconnect, stpc, stopCtxDone, doneCh, forced,
                   srvCtxDone, lateStart>>
    /\ UNCHANGED <<connVars, auxVars>>

\* s.listener.Accept() returns a connection.
Accept(c) ==
    /\ apc = "accept"
    /\ listener = "open"
    /\ client[c] = "dialed"
    /\ client' = [client EXCEPT ![c] = "connected"]
    /\ accepted' = c
    /\ apc' = "accepted"
    /\ UNCHANGED <<listener, shutdownCh, wg, hpc, reqs, csent, cclosed,
                   connections, members, onConnect, onDisconnect, stpc,
                   stopCtxDone, doneCh, forced, srvCtxDone, lateStart>>
    /\ UNCHANGED <<connVars, auxVars>>

\* s.listener.Accept() fails because the listener was closed: the inner
\* select returns nil on shutdown, otherwise OnError and continue.
AcceptError ==
    /\ apc = "accept"
    /\ listener = "closed"
    /\ apc' = IF shutdownCh THEN "done" ELSE "loop"
    /\ UNCHANGED <<listener, shutdownCh, client, accepted, wg, hpc, reqs,
                   csent, cclosed, connections, members, onConnect,
                   onDisconnect, stpc, stopCtxDone, doneCh, forced,
                   srvCtxDone, lateStart>>
    /\ UNCHANGED <<connVars, auxVars>>

\* s.wg.Add(1); go s.handleConnection(conn)
AcceptSpawn ==
    /\ apc = "accepted"
    /\ wg' = wg + 1
    /\ hpc' = [hpc EXCEPT ![accepted] = "start"]
    /\ accepted' = NoConn
    /\ apc' = "loop"
    /\ UNCHANGED <<listener, shutdownCh, client, reqs, csent, cclosed,
                   connections, members, onConnect, onDisconnect, stpc,
                   stopCtxDone, doneCh, forced, srvCtxDone, lateStart>>
    /\ UNCHANGED <<connVars, auxVars>>

\* handleConnection: newConnection; s.connections.Store(conn, true)
HCStore(c) ==
    /\ hpc[c] = "start"
    /\ connections' = connections \cup {c}
    /\ hpc' = [hpc EXCEPT ![c] = "stored"]
    /\ UNCHANGED <<apc, listener, shutdownCh, client, accepted, wg, reqs,
                   csent, cclosed, members, onConnect, onDisconnect, stpc,
                   stopCtxDone, doneCh, forced, srvCtxDone, lateStart>>
    /\ UNCHANGED <<connVars, auxVars>>

\* handleConnection: s.broadcast.Add(conn); OnConnect(conn); conn.Serve()
HCAdd(c) ==
    /\ hpc[c] = "stored"
    /\ members' = members \cup {c}
    /\ onConnect' = [onConnect EXCEPT ![c] = @ + 1]
    /\ hpc' = [hpc EXCEPT ![c] = "select"]
    /\ UNCHANGED <<apc, listener, shutdownCh, client, accepted, wg, reqs,
                   csent, cclosed, connections, onDisconnect, stpc,
                   stopCtxDone, doneCh, forced, srvCtxDone, lateStart>>
    /\ UNCHANGED <<connVars, auxVars>>

\* Serve: the select at the top of the loop (Close closes c.closed and
\* cancels c.ctx).
SrvServeSelect(c) ==
    /\ hpc[c] = "select"
    /\ hpc' = [hpc EXCEPT ![c] = IF cclosed[c] THEN "defer" ELSE "read"]
    /\ UNCHANGED <<apc, listener, shutdownCh, client, accepted, wg, reqs,
                   csent, cclosed, connections, members, onConnect,
                   onDisconnect, stpc, stopCtxDone, doneCh, forced,
                   srvCtxDone, lateStart>>
    /\ UNCHANGED <<connVars, auxVars>>

\* handleNext reads a request line and invokes its handler.
SrvServeRead(c) ==
    /\ hpc[c] = "read"
    /\ reqs[c] > 0
    /\ reqs' = [reqs EXCEPT ![c] = @ - 1]
    /\ hpc' = [hpc EXCEPT ![c] = "handle"]
    /\ UNCHANGED <<apc, listener, shutdownCh, client, accepted, wg, csent,
                   cclosed, connections, members, onConnect, onDisconnect,
                   stpc, stopCtxDone, doneCh, forced, srvCtxDone, lateStart>>
    /\ UNCHANGED <<connVars, auxVars>>

\* handleNext when the read fails (stream closed here, or end of stream):
\* the wrapped error is not io.EOF, so Serve continues its loop.
SrvServeReadFault(c) ==
    /\ hpc[c] = "read"
    /\ cclosed[c] \/ (client[c] = "gone" /\ reqs[c] = 0)
    /\ hpc' = [hpc EXCEPT ![c] = "select"]
    /\ UNCHANGED <<apc, listener, shutdownCh, client, accepted, wg, reqs,
                   csent, cclosed, connections, members, onConnect,
                   onDisconnect, stpc, stopCtxDone, doneCh, forced,
                   srvCtxDone, lateStart>>
    /\ UNCHANGED <<connVars, auxVars>>

\* The handler returns and the response is sent.
SrvHandlerReturn(c) ==
    /\ hpc[c] = "handle"
    /\ hpc' = [hpc EXCEPT ![c] = "select"]
    /\ UNCHANGED <<apc, listener, shutdownCh, client, accepted, wg, reqs,
                   csent, cclosed, connections, members, onConnect,
                   onDisconnect, stpc, stopCtxDone, doneCh, forced,
                   srvCtxDone, lateStart>>
    /\ UNCHANGED <<connVars, auxVars>>

\* Serve returns: its deferred c.Close() runs.
SrvServeReturn(c) ==
    /\ hpc[c] = "defer"
    /\ cclosed' = [cclosed EXCEPT ![c] = TRUE]
    /\ hpc' = [hpc EXCEPT ![c] = "delete"]
    /\ UNCHANGED <<apc, listener, shutdownCh, client, accepted, wg, reqs,
                   csent, connections, members, onConnect, onDisconnect,
                   stpc, stopCtxDone, doneCh, forced, srvCtxDone, lateStart>>
    /\ UNCHANGED <<connVars, auxVars>>

\* handleConnection: s.connections.Delete(conn)
HCDelete(c) ==
    /\ hpc[c] = "delete"
    /\ connections' = connections \ {c}
    /\ hpc' = [hpc EXCEPT ![c] = "remove"]
    /\ UNCHANGED <<apc, listener, shutdownCh, client, accepted, wg, reqs,
                   csent, cclosed, members, onConnect, onDisconnect, stpc,
                   stopCtxDone, doneCh, forced, srvCtxDone, lateStart>>
    /\ UNCHANGED <<connVars, auxVars>>

\* handleConnection: s.broadcast.Remove(conn)
HCRemove(c) ==
    /\ hpc[c] = "remove"
    /\ members' = members \ {c}
    /\ hpc' = [hpc EXCEPT ![c] = "hook"]
    /\ UNCHANGED <<apc, listener, shutdownCh, client, accepted, wg, reqs,
                   csent, cclosed, connections, onConnect, onDisconnect,
                   stpc, stopCtxDone, doneCh, forced, srvCtxDone, lateStart>>
    /\ UNCHANGED <<connVars, auxVars>>

\* handleConnection: OnDisconnect(conn), then the deferred s.wg.Done()
HCDisconnect(c) ==
    /\ hpc[c] = "hook"
    /\ onDisconnect' = [onDisconnect EXCEPT ![c] = @ + 1]
    /\ wg' = wg - 1
    /\ hpc' = [hpc EXCEPT ![c] = "done"]
    /\ UNCHANGED <<apc, listener, shutdownCh, client, accepted, reqs, csent,
                   cclosed, connections, members, onConnect, stpc,
                   stopCtxDone, doneCh, forced, srvCtxDone, lateStart>>
    /\ UNCHANGED <<connVars, auxVars>>

(***************************************************************************)
(* Stop(ctx): stopOnce.Do(...)                                             *)
(***************************************************************************)
\* close(s.shutdownCh)
StopCall ==
    /\ stpc = "idle"
    /\ shutdownCh' = TRUE
    /\ stpc' = "listener"
    /\ UNCHANGED <<apc, listener, client, accepted, wg, hpc, reqs, csent,
                   cclosed, connections, members, onConnect, onDisconnect,
                   stopCtxDone, doneCh, forced, srvCtxDone, lateStart>>
    /\ UNCHANGED <<connVars, auxVars>>

\* if s.listener != nil { s.listener.Close() }: clients waiting in the
\* listener's queue are refused.  Then the goroutine running s.wg.Wait()
\* is started.
StopCloseListener ==
    /\ stpc = "listener"
    /\ listener' = IF listener = "open" THEN "closed" ELSE listener
    /\ client' = [c \in Conns |->
                    IF listener = "open" /\ client[c] = "dialed"
                      THEN "refused" ELSE client[c]]
    /\ stpc' = "wait"
    /\ UNCHANGED <<apc, shutdownCh, accepted, wg, hpc, reqs, csent, cclosed,
                   connections, members, onConnect, onDisconnect,
                   stopCtxDone, doneCh, forced, srvCtxDone, lateStart>>
    /\ UNCHANGED <<connVars, auxVars>>

\* go func() { s.wg.Wait(); close(done) }()
WaitGroupDone ==
    /\ stpc \in {"wait", "forced"}
    /\ ~doneCh
    /\ wg = 0
    /\ doneCh' = TRUE
    /\ UNCHANGED <<apc, listener, shutdownCh, client, accepted, wg, hpc,
                   reqs, csent, cclosed, connections, members, onConnect,
                   onDisconnect, stpc, stopCtxDone, forced, srvCtxDone, lateStart>>
    /\ UNCHANGED <<connVars, auxVars>>

\* select: case <-done
StopGraceful ==
    /\ stpc = "wait"
    /\ doneCh
    /\ stpc' = "cancel"
    /\ UNCHANGED <<apc, listener, shutdownCh, client, accepted, wg, hpc,
                   reqs, csent, cclosed, connections, members, onConnect,
                   onDisconnect, stopCtxDone, doneCh, forced, srvCtxDone, lateStart>>
    /\ UNCHANGED <<connVars, auxVars>>

\* select: case <-ctx.Done(): s.connections.Range closes every connection
\* that is in the map.
StopForce ==
    /\ stpc = "wait"
    /\ stopCtxDone
    /\ cclosed' = [c \in Conns |-> cclosed[c] \/ c \in connections]
    /\ forced' = connections
    /\ stpc' = "forced"
    /\ UNCHANGED <<apc, listener, shutdownCh, client, accepted, wg, hpc,
                   reqs, csent, connections, members, onConnect,
                   onDisconnect, stopCtxDone, doneCh, srvCtxDone, lateStart>>
    /\ UNCHANGED <<connVars, auxVars>>

\* <-done after the forced close
StopForcedWait ==
    /\ stpc = "forced"
    /\ doneCh
    /\ stpc' = "cancel"
    /\ UNCHANGED <<apc, listener, shutdownCh, client, accepted, wg, hpc,
                   reqs, csent, cclosed, connections, members, onConnect,
                   onDisconnect, stopCtxDone, doneCh, forced, srvCtxDone, lateStart>>
    /\ UNCHANGED <<connVars, auxVars>>

\* s.cancel(); CleanupSocket; Stop returns
StopReturn ==
    /\ stpc = "cancel"
    /\ srvCtxDone' = TRUE
    /\ stpc' = "returned"
    /\ UNCHANGED <<apc, listener, shutdownCh, client, accepted, wg, hpc,
                   reqs, csent, cclosed, connections, members, onConnect,
                   onDisconnect, stopCtxDone, doneCh, forced, lateStart>>
    /\ UNCHANGED <<connVars, auxVars>>

\* The context given to Stop expires or is cancelled by the caller.
StopCtxExpire ==
    /\ ~stopCtxDone
    /\ stpc # "returned"
    /\ stopCtxDone' = TRUE
    /\ UNCHANGED <<apc, listener, shutdownCh, client, accepted, wg, hpc,
                   reqs, csent, cclosed, connections, members, onConnect,
                   onDisconnect, stpc, doneCh, forced, srvCtxDone, lateStart>>
    /\ UNCHANGED <<connVars, auxVars>>

(***************************************************************************)
(* Clients of the server.                                                  *)
(***************************************************************************)
ClientDial(c) ==
    /\ client[c] = "new"
    /\ listener = "open"
    /\ client' = [client EXCEPT ![c] = "dialed"]
    /\ UNCHANGED <<apc, listener, shutdownCh, accepted, wg, hpc, reqs, csent,
                   cclosed, connections, members, onConnect, onDisconnect,
                   stpc, stopCtxDone, doneCh, forced, srvCtxDone, lateStart>>
    /\ UNCHANGED <<connVars, auxVars>>

ClientSend(c) ==
    /\ client[c] = "connected"
    /\ ~cclosed[c]
    /\ csent[c] < MaxReqs
    /\ csent' = [csent EXCEPT ![c] = @ + 1]
    /\ reqs' = [reqs EXCEPT ![c] = @ + 1]
    /\ UNCHANGED <<apc, listener, shutdownCh, client, accepted, wg, hpc,
                   cclosed, connections, members, onConnect, onDisconnect,
                   stpc, stopCtxDone, doneCh, forced, srvCtxDone, lateStart>>
    /\ UNCHANGED <<connVars, auxVars>>

ClientClose(c) ==
    /\ client[c] = "connected"
    /\ client' = [client EXCEPT ![c] = "gone"]
    /\ UNCHANGED <<apc, listener, shutdownCh, accepted, wg, hpc, reqs, csent,
                   cclosed, connections, members, onConnect, onDisconnect,
                   stpc, stopCtxDone, doneCh, forced, srvCtxDone, lateStart>>
    /\ UNCHANGED <<connVars, auxVars>>

\* Server.ConnectionCount -> BroadcastManager.Count
ConnectionCount == Cardinality(members)

(***************************************************************************)
(* Properties of the server shell.                                         *)
(***************************************************************************)
\* C6: a connection whose client has disconnected is eventually removed
\* from the broadcast set, with OnDisconnect invoked once for it, so that
\* ConnectionCount() counts the clients still connected.
C6_DisconnectRemoves ==
    \A c \in Conns :
        (client[c] = "gone") ~> (c \notin members /\ onDisconnect[c] = 1)

\* C7: once the ctx given to Stop is done, Stop returns.
C7_StopReturns == (stpc # "idle" /\ stopCtxDone) ~> (stpc = "returned")

\* The server accepted connection c: Accept returned it.
Accepted(c) == accepted = c \/ hpc[c] # "none"

\* C8: when Stop has returned, every accepted connection is closed, its
\* OnDisconnect has been called, and ConnectionCount() is 0.
C8_StoppedMeansDrained ==
    stpc = "returned" =>
        /\ \A c \in Conns : Accepted(c) => (cclosed[c] /\ onDisconnect[c] = 1)
        /\ ConnectionCount = 0

(***************************************************************************)
(* The middleware pipeline: Chain, LoggingMiddleware, RecoveryMiddleware   *)
(* and TimeoutMiddleware around one call of a base handler.  An outcome is *)
(* what a call of a Handler produces: a returned (result, error) pair, or  *)
(* a panic that leaves the call.                                           *)
(***************************************************************************)
Provided == {"logging", "recovery", "timeout"}

\* Every arrangement Chain may be given: each provided middleware at most
\* once, in any order.
Arrangements ==
    {q \in UNION {[1..n -> Provided] : n \in 0..Cardinality(Provided)} :
        \A i, j \in DOMAIN q : i # j => q[i] # q[j]}

\* What the base handler may do.
HandlerDoes == {"ok", "err", "panic"}

NoOutcome == [panic |-> FALSE, result |-> "none", code |-> 0, data |-> "none"]

Panic == [panic |-> TRUE, result |-> "nil", code |-> 0, data |-> "none"]

Returned(d) ==
    IF d = "ok" THEN [panic |-> FALSE, result |-> "value", code |-> 0, data |-> "none"]
    ELSE IF d = "err" THEN [panic |-> FALSE, result |-> "nil", code |-> AppError, data |-> "handler"]
    ELSE Panic

\* NewInternalError(map{"panic": r, "method": method}) with a nil result.
RecoveredError ==
    [panic |-> FALSE, result |-> "nil", code |-> InternalError, data |-> "panic+method"]

\* The context's own error returned in place of the RPCError
\* (return nil, ctx.Err()).
TimeoutErrorCtxErr ==
    [panic |-> FALSE, result |-> "nil", code |-> AppError, data |-> "context deadline exceeded"]

\* NewInternalError("request timeout") with a nil result.
TimeoutError ==
    [panic |-> FALSE, result |-> "nil", code |-> InternalError, data |-> "request timeout"]

\* LoggingMiddleware: the logger runs after next.Handle has returned; a
\* panic of next.Handle passes through, a panic of the logger leaves the call.
LoggingMiddleware(o, bad) == IF o.panic THEN o ELSE IF bad THEN Panic ELSE o

\* RecoveryMiddleware: the deferred recover turns a panic of next.Handle,
\* raised on this goroutine, into an InternalError.
RecoveryMiddleware(o) == IF o.panic THEN RecoveredError ELSE o

\* The outcome at the top of a stretch of the chain that runs on one
\* goroutine (seg holds no TimeoutMiddleware), given the outcome o below it.
RECURSIVE Through(_, _, _)
Through(seg, o, bad) ==
    IF seg = <<>> THEN o
    ELSE LET below == Through(Tail(seg), o, bad)
         IN IF Head(seg) = "recovery" THEN RecoveryMiddleware(below)
            ELSE LoggingMiddleware(below, bad)

\* Position of a middleware in the chain, 0 if absent.
At(q, m) == IF \E i \in DOMAIN q : q[i] = m
              THEN CHOOSE i \in DOMAIN q : q[i] = m
              ELSE 0

\* The middleware outside and inside TimeoutMiddleware: the latter run on
\* the goroutine TimeoutMiddleware starts.
OuterSeg(q) == IF At(q, "timeout") = 0 THEN q ELSE SubSeq(q, 1, At(q, "timeout") - 1)

InnerSeg(q) == IF At(q, "timeout") = 0 THEN <<>> ELSE SubSeq(q, At(q, "timeout") + 1, Len(q))

\* No call in progress: the state of the pipeline in the other models.
MwIdle ==
    /\ chain = <<>>
    /\ loggerPanics = FALSE
    /\ mwpc = "idle"
    /\ ipc = "none"
    /\ resultChan = NoOutcome
    /\ carried = NoOutcome
    /\ handled = "none"
    /\ tctx = "none"
    /\ mwlog = <<>>
    /\ ret = NoOutcome
    /\ mwcrashed = FALSE
    /\ responses = 0

\* Chain(handler, middleware...) has been built; handleRequest is about to
\* call it.
MwInit ==
    /\ chain \in Arrangements
    /\ loggerPanics \in BOOLEAN
    /\ mwpc = "idle"
    /\ ipc = "none"
    /\ resultChan = NoOutcome
    /\ carried = NoOutcome
    /\ handled = "none"
    /\ tctx = "none"
    /\ mwlog = <<>>
    /\ ret = NoOutcome
    /\ mwcrashed = FALSE
    /\ responses = 0

\* The caller's goroutine receives outcome o from the composed handler: a
\* panic leaves handleRequest and Serve (nothing there recovers) and ends
\* the process; otherwise the pair is returned.
MwFinish(o) ==
    IF o.panic
      THEN /\ mwpc' = "escaped"
           /\ mwcrashed' = TRUE
           /\ UNCHANGED ret
      ELSE /\ mwpc' = "returned"
           /\ ret' = o
           /\ UNCHANGED mwcrashed

\* handler.Handle(ctx, params) on the composed handler.  With a
\* TimeoutMiddleware in the chain the caller runs down to it, which starts a
\* goroutine for the rest of the chain and waits in its select.
MwCall ==
    /\ ~mwcrashed /\ mwpc = "idle"
    /\ IF At(chain, "timeout") = 0
         THEN mwpc' = "inline" /\ UNCHANGED ipc
         ELSE mwpc' = "select" /\ ipc' = "running"
    /\ mwlog' = Append(mwlog, "call")
    /\ UNCHANGED <<chain, loggerPanics, resultChan, carried, handled, tctx, ret,
                   mwcrashed, responses>>
    /\ UNCHANGED mwRest

\* No TimeoutMiddleware: the base handler and the whole chain run on the
\* caller's goroutine.
MwHandleInline(d) ==
    /\ ~mwcrashed /\ mwpc = "inline"
    /\ handled' = d
    /\ mwlog' = Append(mwlog, "complete")
    /\ MwFinish(Through(chain, Returned(d), loggerPanics))
    /\ UNCHANGED <<chain, loggerPanics, ipc, resultChan, carried, tctx, responses>>
    /\ UNCHANGED mwRest

\* The goroutine started by TimeoutMiddleware runs the inner chain and the
\* base handler: next.Handle returns a pair, or panics.  A panic that
\* reaches the top of this goroutine ends the process: a recover deferred
\* on the caller's goroutine does not see it.
MwHandleSpawned(d) ==
    /\ ~mwcrashed /\ ipc = "running"
    /\ handled' = d
    /\ LET o == Through(InnerSeg(chain), Returned(d), loggerPanics)
       IN IF o.panic
            THEN /\ ipc' = "panicked"
                 /\ mwcrashed' = TRUE
                 /\ mwlog' = Append(mwlog, "panic")
                 /\ UNCHANGED carried
            ELSE /\ ipc' = "sending"
                 /\ carried' = o
                 /\ mwlog' = Append(mwlog, "complete")
                 /\ UNCHANGED mwcrashed
    /\ UNCHANGED <<chain, loggerPanics, mwpc, resultChan, tctx, ret, responses>>
    /\ UNCHANGED mwRest

\* The send on a channel without a buffer: it proceeds only while the
\* caller waits in its select, which takes the value at once.
MwSendUnbuffered ==
    /\ ~mwcrashed /\ ipc = "sending"
    /\ mwpc = "select"
    /\ resultChan = NoOutcome
    /\ resultChan' = carried
    /\ carried' = NoOutcome
    /\ ipc' = "done"
    /\ UNCHANGED <<chain, loggerPanics, mwpc, handled, tctx, mwlog, ret,
                   mwcrashed, responses>>
    /\ UNCHANGED mwRest

\* resultChan <- result{value, err}: resultChan = make(chan result, 1), the
\* send proceeds when the buffer has room; the goroutine then ends.
MwSend ==
    /\ ~mwcrashed /\ ipc = "sending"
    /\ resultChan = NoOutcome
    /\ resultChan' = carried
    /\ carried' = NoOutcome
    /\ ipc' = "done"
    /\ UNCHANGED <<chain, loggerPanics, mwpc, handled, tctx, mwlog, ret,
                   mwcrashed, responses>>
    /\ UNCHANGED mwRest

\* The timer of context.WithTimeout fires.
MwDeadline ==
    /\ ~mwcrashed /\ mwpc = "select" /\ tctx = "none"
    /\ tctx' = "deadline"
    /\ mwlog' = Append(mwlog, "deadline")
    /\ UNCHANGED <<chain, loggerPanics, mwpc, ipc, resultChan, carried, handled, ret,
                   mwcrashed, responses>>
    /\ UNCHANGED mwRest

\* The parent context (the connection's c.ctx) is cancelled: the derived
\* timeout context is done as well.
MwParentCancel ==
    /\ ~mwcrashed /\ mwpc = "select" /\ tctx = "none"
    /\ tctx' = "cancel"
    /\ mwlog' = Append(mwlog, "cancel")
    /\ UNCHANGED <<chain, loggerPanics, mwpc, ipc, resultChan, carried, handled, ret,
                   mwcrashed, responses>>
    /\ UNCHANGED mwRest

\* TimeoutMiddleware's select with the result case returning the value
\* alone (return res.value, nil).
MwSelectDropsErr ==
    /\ ~mwcrashed /\ mwpc = "select"
    /\ \/ /\ resultChan # NoOutcome
          /\ resultChan' = NoOutcome
          /\ MwFinish(Through(OuterSeg(chain),
                              [resultChan EXCEPT !.code = 0, !.data = "none"],
                              loggerPanics))
       \/ /\ tctx # "none"
          /\ UNCHANGED resultChan
          /\ MwFinish(Through(OuterSeg(chain), TimeoutError, loggerPanics))
    /\ mwlog' = Append(mwlog, "return")
    /\ UNCHANGED <<chain, loggerPanics, ipc, handled, tctx, responses>>
    /\ UNCHANGED carried
    /\ UNCHANGED mwRest

\* TimeoutMiddleware's select: one of the cases that can proceed is taken.
MwSelect ==
    /\ ~mwcrashed /\ mwpc = "select"
    /\ \/ /\ resultChan # NoOutcome
          /\ resultChan' = NoOutcome
          /\ MwFinish(Through(OuterSeg(chain), resultChan, loggerPanics))
       \/ /\ tctx # "none"
          /\ UNCHANGED resultChan
          /\ MwFinish(Through(OuterSeg(chain), TimeoutError, loggerPanics))
    /\ mwlog' = Append(mwlog, "return")
    /\ UNCHANGED <<chain, loggerPanics, ipc, handled, tctx, responses>>
    /\ UNCHANGED carried
    /\ UNCHANGED mwRest

\* handleRequest sends the response for what the composed handler returned.
MwRespond ==
    /\ ~mwcrashed /\ mwpc = "returned"
    /\ responses' = responses + 1
    /\ mwpc' = "responded"
    /\ UNCHANGED <<chain, loggerPanics, ipc, resultChan, carried, handled, tctx,
                   mwlog, ret, mwcrashed>>
    /\ UNCHANGED mwRest

(***************************************************************************)
(* Properties of the middleware pipeline.                                  *)
(***************************************************************************)
MwReturned == mwpc \in {"returned", "responded"}

\* Event a is in the log, before any event b.
Before(a, b) ==
    \E i \in DOMAIN mwlog :
        /\ mwlog[i] = a
        /\ \A j \in DOMAIN mwlog : mwlog[j] = b => i < j

\* Every panic the call can raise comes from the handler or from a
\* middleware placed downstream of RecoveryMiddleware.
RecoveryCovers ==
    /\ At(chain, "recovery") > 0
    /\ loggerPanics =>
          (At(chain, "logging") = 0 \/ At(chain, "logging") > At(chain, "recovery"))

\* C11: under RecoveryMiddleware, in every arrangement, a panic of the
\* handler or of a downstream middleware never leaves the composed handler
\* (no goroutine dies of it), and the call returns a nil result with the
\* InternalError that carries the panic value and the method.
C11_RecoveryCatchesAll ==
    RecoveryCovers =>
        /\ ~mwcrashed
        /\ mwpc # "escaped"
        /\ (MwReturned /\ handled = "panic" /\ At(chain, "timeout") = 0)
              => ret = RecoveredError

Lookers == 1..NumLookers

RegWrites == {"Register", "Unregister", "Clear"}

RegReads == {"Get", "Has", "Methods"}

\* The handlers: "h0" is registered at startup, the n-th write registers
\* "h<n>"; "absent" is a missing key and "broken" a value no write stored.
HandlerName(n) == IF n = 0 THEN "h0" ELSE IF n = 1 THEN "h1"
                  ELSE IF n = 2 THEN "h2" ELSE "h3"

\* The handler a write leaves in the map for the method.
Written(op, n) == IF op = "Register" THEN HandlerName(n) ELSE "absent"

RegIdle ==
    /\ handlers = HandlerName(0)
    /\ wop = "none"
    /\ nwrites = 0
    /\ lop = [r \in Lookers |-> "none"]
    /\ raced = [r \in Lookers |-> FALSE]
    /\ seen = [r \in Lookers |-> {}]
    /\ got = [r \in Lookers |-> "none"]
    /\ regcrashed = FALSE

\* Register / Unregister / Clear starts to modify the map.
RegWriteBegin(op) ==
    /\ ~regcrashed /\ wop = "none"
    /\ nwrites < MaxWrites
    /\ wop' = op
    /\ raced' = [r \in Lookers |-> raced[r] \/ lop[r] # "none"]
    /\ UNCHANGED <<handlers, nwrites, lop, seen, got, regcrashed>>
    /\ UNCHANGED regRest

\* The modification is complete.
RegWriteEnd ==
    /\ ~regcrashed /\ wop # "none"
    /\ handlers' = Written(wop, nwrites + 1)
    /\ nwrites' = nwrites + 1
    /\ wop' = "none"
    /\ seen' = [r \in Lookers |->
                  IF lop[r] # "none" THEN seen[r] \cup {handlers'} ELSE seen[r]]
    /\ UNCHANGED <<lop, raced, got, regcrashed>>
    /\ UNCHANGED regRest

\* Get / Has / Methods starts to read the map.
RegReadBegin(r, op) ==
    /\ ~regcrashed /\ lop[r] = "none" /\ got[r] = "none"
    /\ lop' = [lop EXCEPT ![r] = op]
    /\ raced' = [raced EXCEPT ![r] = wop # "none"]
    /\ seen' = [seen EXCEPT ![r] = {handlers}]
    /\ UNCHANGED <<handlers, wop, nwrites, got, regcrashed>>
    /\ UNCHANGED regRest

\* The read returns.  Without a race it returns what the map holds; a read
\* that overlapped a write returns a value the map held, or a broken one, or
\* the runtime stops the process.
RegReadEnd(r) ==
    /\ ~regcrashed /\ lop[r] # "none"
    /\ lop' = [lop EXCEPT ![r] = "none"]
    /\ IF raced[r]
         THEN \/ /\ \E v \in seen[r] \cup {handlers, "broken"} :
                       got' = [got EXCEPT ![r] = v]
                 /\ UNCHANGED regcrashed
              \/ /\ regcrashed' = TRUE
                 /\ UNCHANGED got
         ELSE /\ got' = [got EXCEPT ![r] = handlers]
              /\ UNCHANGED regcrashed
    /\ UNCHANGED <<handlers, wop, nwrites, raced, seen>>
    /\ UNCHANGED regRest

\* C14: the registry is safe under a registration concurrent with lookups:
\* no lookup reads the map while a write is modifying it, the process is not
\* stopped, and every lookup returns a value the map held during the lookup
\* (the previously or the newly registered handler).
C14_RegistrySafe ==
    /\ ~regcrashed
    /\ \A r \in Lookers :
          /\ ~(wop = "Register" /\ lop[r] # "none")
          /\ got[r] # "broken"

(***************************************************************************)
(* The write path of one connection: the Serve goroutine sends responses   *)
(* (sendResult / sendError -> codec.WriteJSON) while other goroutines call *)
(* Notify (NotificationManager.Send -> codec.WriteJSON).  WriteMessage     *)
(* holds writeMu over Write(data), WriteByte('\n') and Flush.  The wire is *)
(* cut into chunks: a message is its body (one chunk, or two when it does  *)
(* not fit the bufio buffer) and its newline.  Only the chunks after the   *)
(* last complete message are kept; every goroutine sends again and again.  *)
(***************************************************************************)
ServeWriter == 0
Notifiers == 1..NumNotifiers
Writers == {ServeWriter} \cup Notifiers

Sizes == {"small", "large"}

Chunk(w, part) == [w |-> w, part |-> part]

\* The chunks of a message, in order.
Frame(w, size) ==
    IF size = "small" THEN <<Chunk(w, "body1"), Chunk(w, "nl")>>
    ELSE <<Chunk(w, "body1"), Chunk(w, "body2"), Chunk(w, "nl")>>

\* s begins with a complete message.
StartsWithFrame(s) ==
    \E size \in Sizes :
        LET n == IF size = "small" THEN 2 ELSE 3
        IN /\ Len(s) >= n
           /\ SubSeq(s, 1, n) = Frame(s[1].w, size)

FrameLen(s) == IF Len(s) >= 2 /\ s[2].part = "nl" THEN 2 ELSE 3

\* The reader of the stream consumes complete messages.
RECURSIVE Strip(_)
Strip(s) ==
    IF s # <<>> /\ StartsWithFrame(s)
      THEN Strip(SubSeq(s, FrameLen(s) + 1, Len(s)))
      ELSE s

WrIdle ==
    /\ wpos = [w \in Writers |-> "idle"]
    /\ wres = [w \in Writers |-> "none"]
    /\ sres = [w \in Writers |-> "none"]
    /\ late = [w \in Writers |-> FALSE]
    /\ writeMu = {}
    /\ nmMu = {}
    /\ buf = <<>>
    /\ wire = <<>>
    /\ sclosed = FALSE
    /\ werr = FALSE
    /\ wclosed = FALSE
    /\ ncloses = 0
    /\ latewrites = 0

\* A goroutine calls Notify -> NotificationManager.Send.
WrSendBegin(w) ==
    /\ w \in Notifiers /\ wpos[w] = "idle"
    /\ wpos' = [wpos EXCEPT ![w] = "check"]
    /\ late' = [late EXCEPT ![w] = (ncloses > 0)]
    /\ sres' = [sres EXCEPT ![w] = "none"]
    /\ UNCHANGED <<wres, writeMu, nmMu, buf, wire, sclosed, werr,
                   wclosed, ncloses, latewrites>>
    /\ UNCHANGED wrRest

\* Send with the test of nm.closed left out.
WrSendCheckNoTest(w) ==
    /\ w \in Notifiers /\ wpos[w] = "check"
    /\ wpos' = [wpos EXCEPT ![w] = "nmlock"]
    /\ UNCHANGED sres
    /\ UNCHANGED <<wres, late, writeMu, nmMu, buf, wire, sclosed,
                   werr, wclosed, ncloses, latewrites>>
    /\ UNCHANGED wrRest

\* Send: under closeMu.RLock, return the "closed" error if nm.closed.
WrSendCheck(w) ==
    /\ w \in Notifiers /\ wpos[w] = "check"
    /\ IF wclosed
         THEN /\ wpos' = [wpos EXCEPT ![w] = "idle"]
              /\ sres' = [sres EXCEPT ![w] = "closed"]
         ELSE /\ wpos' = [wpos EXCEPT ![w] = "nmlock"]
              /\ UNCHANGED sres
    /\ UNCHANGED <<wres, late, writeMu, nmMu, buf, wire, sclosed,
                   werr, wclosed, ncloses, latewrites>>
    /\ UNCHANGED wrRest

\* Send: nm.mu.Lock().
WrNmLock(w) ==
    /\ w \in Notifiers /\ wpos[w] = "nmlock"
    /\ nmMu = {}
    /\ nmMu' = {w}
    /\ wpos' = [wpos EXCEPT ![w] = "lock"]
    /\ UNCHANGED <<wres, sres, late, writeMu, buf, wire,
                   sclosed, werr, wclosed, ncloses, latewrites>>
    /\ UNCHANGED wrRest

\* The Serve goroutine has a response to send.
WrServeBegin ==
    /\ wpos[ServeWriter] = "idle"
    /\ wpos' = [wpos EXCEPT ![ServeWriter] = "lock"]
    /\ UNCHANGED <<wres, sres, late, writeMu, nmMu, buf, wire, sclosed,
                   werr, wclosed, ncloses, latewrites>>
    /\ UNCHANGED wrRest

\* WriteMessage entered without taking writeMu.
WrLockNoMutex(w) ==
    /\ wpos[w] = "lock"
    /\ wpos' = [wpos EXCEPT ![w] = "data"]
    /\ latewrites' = IF late[w] THEN 1 ELSE latewrites
    /\ UNCHANGED <<wres, sres, late, writeMu, nmMu, buf, wire,
                   sclosed, werr, wclosed, ncloses>>
    /\ UNCHANGED wrRest

\* WriteMessage: c.writeMu.Lock().
WrLock(w) ==
    /\ wpos[w] = "lock"
    /\ writeMu = {}
    /\ writeMu' = {w}
    /\ wpos' = [wpos EXCEPT ![w] = "data"]
    /\ latewrites' = IF late[w] THEN 1 ELSE latewrites
    /\ UNCHANGED <<wres, sres, late, nmMu, buf, wire, sclosed,
                   werr, wclosed, ncloses>>
    /\ UNCHANGED wrRest

\* WriteMessage: c.writer.Write(data).  A body that fits is buffered; of a
\* larger one bufio writes the first part through to the stream.  The
\* bufio.Writer keeps the first error and fails every later call.
WrData(w) ==
    /\ wpos[w] = "data"
    /\ \E size \in Sizes :
       IF werr \/ (size = "large" /\ sclosed)
         THEN /\ werr' = TRUE
              /\ wres' = [wres EXCEPT ![w] = "werr"]
              /\ wpos' = [wpos EXCEPT ![w] = "unlock"]
              /\ UNCHANGED <<buf, wire>>
       ELSE IF size = "small"
         THEN /\ buf' = Append(buf, Chunk(w, "body1"))
              /\ wpos' = [wpos EXCEPT ![w] = "nl"]
              /\ UNCHANGED <<wire, werr, wres>>
       ELSE /\ wire' = Strip(wire \o Append(buf, Chunk(w, "body1")))
            /\ buf' = <<Chunk(w, "body2")>>
            /\ wpos' = [wpos EXCEPT ![w] = "nl"]
            /\ UNCHANGED <<werr, wres>>
    /\ UNCHANGED <<sres, late, writeMu, nmMu, sclosed, wclosed,
                   ncloses, latewrites>>
    /\ UNCHANGED wrRest

\* WriteMessage: c.writer.WriteByte('\n').
WrNewline(w) ==
    /\ wpos[w] = "nl"
    /\ IF werr
         THEN /\ wres' = [wres EXCEPT ![w] = "werr"]
              /\ wpos' = [wpos EXCEPT ![w] = "unlock"]
              /\ UNCHANGED buf
         ELSE /\ buf' = Append(buf, Chunk(w, "nl"))
              /\ wpos' = [wpos EXCEPT ![w] = "flush"]
              /\ UNCHANGED wres
    /\ UNCHANGED <<sres, late, writeMu, nmMu, wire, sclosed,
                   werr, wclosed, ncloses, latewrites>>
    /\ UNCHANGED wrRest

\* WriteMessage: c.writer.Flush().
WrFlush(w) ==
    /\ wpos[w] = "flush"
    /\ IF werr \/ sclosed
         THEN /\ werr' = TRUE
              /\ wres' = [wres EXCEPT ![w] = "werr"]
              /\ UNCHANGED <<buf, wire>>
         ELSE /\ wire' = Strip(wire \o buf)
              /\ buf' = <<>>
              /\ wres' = [wres EXCEPT ![w] = "ok"]
              /\ UNCHANGED werr
    /\ wpos' = [wpos EXCEPT ![w] = "unlock"]
    /\ UNCHANGED <<sres, late, writeMu, nmMu, sclosed, wclosed,
                   ncloses, latewrites>>
    /\ UNCHANGED wrRest

\* WriteMessage returns: the deferred c.writeMu.Unlock().  For the Serve
\* goroutine the send is over (handleRequest drops what it returned).
WrUnlock(w) ==
    /\ wpos[w] = "unlock"
    /\ writeMu' = writeMu \ {w}
    /\ IF w = ServeWriter
         THEN /\ wpos' = [wpos EXCEPT ![w] = "idle"]
              /\ wres' = [wres EXCEPT ![w] = "none"]
         ELSE /\ wpos' = [wpos EXCEPT ![w] = "nmunlock"]
              /\ UNCHANGED wres
    /\ UNCHANGED sres
    /\ UNCHANGED <<late, nmMu, buf, wire, sclosed, werr,
                   wclosed, ncloses, latewrites>>
    /\ UNCHANGED wrRest

\* Send returns: the deferred nm.mu.Unlock().
WrNmUnlock(w) ==
    /\ w \in Notifiers /\ wpos[w] = "nmunlock"
    /\ nmMu' = nmMu \ {w}
    /\ wpos' = [wpos EXCEPT ![w] = "idle"]
    /\ sres' = [sres EXCEPT ![w] = wres[w]]
    /\ wres' = [wres EXCEPT ![w] = "none"]
    /\ UNCHANGED <<late, writeMu, buf, wire, sclosed, werr,
                   wclosed, ncloses, latewrites>>
    /\ UNCHANGED wrRest

\* The stream stops taking bytes: the peer is gone or conn.Close() ran.
WrStreamClose ==
    /\ ~sclosed
    /\ sclosed' = TRUE
    /\ UNCHANGED <<wpos, wres, sres, late, writeMu, nmMu, buf,
                   wire, werr, wclosed, ncloses, latewrites>>
    /\ UNCHANGED wrRest

\* NotificationManager.Close(): under closeMu.Lock, closed = true.
WrNmClose ==
    /\ wclosed' = TRUE
    /\ ncloses' = Min(ncloses + 1, 2)
    /\ UNCHANGED <<wpos, wres, sres, late, writeMu, nmMu, buf,
                   wire, sclosed, werr, latewrites>>
    /\ UNCHANGED wrRest

(***************************************************************************)
(* Properties of the write path.                                           *)
(***************************************************************************)
\* What is on the stream after the last complete message is the beginning
\* of one message.
WellFramed ==
    \/ wire = <<>>
    \/ \E size \in Sizes :
          LET f == Frame(wire[1].w, size)
          IN Len(wire) < Len(f) /\ wire = SubSeq(f, 1, Len(wire))

\* C15: with any number of concurrent Notify callers and the Serve loop
\* writing on the same connection, the bytes of every message and its
\* newline are contiguous on the stream: no two messages interleave.
C15_NoInterleaving == WellFramed

\* The Serve goroutine waits for writeMu while a notifier, half of whose
\* large message is on the stream, holds it.
C15_Witness ==
    /\ wpos[ServeWriter] = "lock"
    /\ \E w \in Notifiers : writeMu = {w} /\ wpos[w] = "nl" /\ wire = <<Chunk(w, "body1")>>

\* C16: a Send that begins after NotificationManager.Close() has returned
\* writes nothing to the codec and returns the "notification manager is
\* closed" error; a second Close() changes nothing.
C16_SendAfterClose ==
    /\ latewrites = 0
    /\ ncloses > 0 => wclosed
    /\ \A w \in Notifiers :
          late[w] => /\ wpos[w] \in {"check", "idle"}
                     /\ wpos[w] = "idle" => sres[w] = "closed"

\* After two Close() calls a Send was refused.
C16_Witness ==
    /\ ncloses = 2
    /\ \E w \in Notifiers : late[w] /\ wpos[w] = "idle" /\ sres[w] = "closed"

(***************************************************************************)
(* BroadcastManager: the membership set (a sync.Map) and one call of       *)
(* Broadcast, while connections are added, removed, closed or lose their   *)
(* peer.  Range visits a key at most once; a key stored or deleted while   *)
(* Range runs may or may not be visited.                                   *)
(***************************************************************************)
BcIdle ==
    /\ bmembers = {}
    /\ bclosed = {}
    /\ bdead = {}
    /\ bpc = "idle"
    /\ bcur = NoConn
    /\ bparams = TRUE
    /\ bstable = {}
    /\ visited = {}
    /\ succeeded = {}
    /\ count = 0
    /\ recv = [c \in Conns |-> 0]

\* BroadcastManager.Add
BcAdd(c) ==
    /\ c \notin bmembers
    /\ c \notin bclosed
    /\ bmembers' = bmembers \cup {c}
    /\ UNCHANGED <<bclosed, bdead, bpc, bcur, bparams, bstable, visited,
                   succeeded, count, recv>>
    /\ UNCHANGED bcRest

\* BroadcastManager.Remove
BcRemove(c) ==
    /\ c \in bmembers
    /\ bmembers' = bmembers \ {c}
    /\ bstable' = bstable \ {c}
    /\ UNCHANGED <<bclosed, bdead, bpc, bcur, bparams, visited, succeeded,
                   count, recv>>
    /\ UNCHANGED bcRest

\* Connection.Close on a member: its notifier is closed and its stream too.
BcConnClose(c) ==
    /\ c \in bmembers /\ c \notin bclosed
    /\ bclosed' = bclosed \cup {c}
    /\ bdead' = bdead \cup {c}
    /\ UNCHANGED <<bmembers, bpc, bcur, bparams, bstable, visited, succeeded,
                   count, recv>>
    /\ UNCHANGED bcRest

\* The peer of a member goes away: writes on its stream fail.
BcPeerGone(c) ==
    /\ c \in bmembers /\ c \notin bdead
    /\ bdead' = bdead \cup {c}
    /\ UNCHANGED <<bmembers, bclosed, bpc, bcur, bparams, bstable, visited,
                   succeeded, count, recv>>
    /\ UNCHANGED bcRest

\* Broadcast(method, params) is called: count := 0 and Range starts.  The
\* params may be a value json.Marshal rejects.
BcBroadcast ==
    /\ bpc = "idle"
    /\ bpc' = "range"
    /\ bparams' \in BOOLEAN
    /\ bstable' = bmembers
    /\ UNCHANGED <<bmembers, bclosed, bdead, bcur, visited, succeeded, count,
                   recv>>
    /\ UNCHANGED bcRest

\* Range hands the next key to the callback: conn.Notify -> Send begins
\* with the test of nm.closed.
BcVisit(c) ==
    /\ bpc = "range"
    /\ c \in bmembers \ visited
    /\ visited' = visited \cup {c}
    /\ IF c \in bclosed
         THEN UNCHANGED <<bpc, bcur>>
         ELSE bpc' = "write" /\ bcur' = c
    /\ UNCHANGED <<bmembers, bclosed, bdead, bparams, bstable, succeeded,
                   count, recv>>
    /\ UNCHANGED bcRest

\* The callback with a failed send ending the iteration (return false).
BcWriteStopOnError ==
    /\ bpc = "write"
    /\ IF bparams /\ bcur \notin bdead
         THEN /\ recv' = [recv EXCEPT ![bcur] = @ + 1]
              /\ count' = count + 1
              /\ succeeded' = succeeded \cup {bcur}
              /\ bpc' = "range"
         ELSE /\ bpc' = "done"
              /\ UNCHANGED <<recv, count, succeeded>>
    /\ bcur' = NoConn
    /\ UNCHANGED <<bmembers, bclosed, bdead, bparams, bstable, visited>>
    /\ UNCHANGED bcRest

\* Send writes the notification through the codec; the callback counts the
\* send if it returned no error, and returns true either way.
BcWrite ==
    /\ bpc = "write"
    /\ IF bparams /\ bcur \notin bdead
         THEN /\ recv' = [recv EXCEPT ![bcur] = @ + 1]
              /\ count' = count + 1
              /\ succeeded' = succeeded \cup {bcur}
         ELSE UNCHANGED <<recv, count, succeeded>>
    /\ bpc' = "range"
    /\ bcur' = NoConn
    /\ UNCHANGED <<bmembers, bclosed, bdead, bparams, bstable, visited>>
    /\ UNCHANGED bcRest

\* Range is over: every key that stayed in the map has been visited.
BcReturn ==
    /\ bpc = "range"
    /\ bstable \subseteq visited
    /\ bpc' = "done"
    /\ UNCHANGED <<bmembers, bclosed, bdead, bcur, bparams, bstable, visited,
                   succeeded, count, recv>>
    /\ UNCHANGED bcRest

\* C17: Broadcast attempts Notify on every connection of the membership
\* set, failed sends included, and returns the number of connections whose
\* send succeeded: N when the N members are all live, and each of those
\* reads one notification.
C17_BroadcastCounts ==
    bpc = "done" =>
        /\ bstable \subseteq visited
        /\ count = Cardinality(succeeded)
        /\ \A c \in Conns : recv[c] = (IF c \in succeeded THEN 1 ELSE 0)
        /\ \A c \in bstable : (bparams /\ c \notin bdead) => c \in succeeded
        /\ (bparams /\ bdead = {}) => count >= Cardinality(bstable)

\* A broadcast over every connection in which one send failed and the
\* other succeeded.
C17_Witness ==
    /\ bpc = "done"
    /\ bstable = Conns
    /\ count = Cardinality(Conns) - 1
    /\ \E c \in Conns : c \in bdead /\ c \notin bclosed /\ c \in visited

(***************************************************************************)
(* Properties of the error paths of handleNext and handleRequest.          *)
(***************************************************************************)
\* Serve takes the next line off the stream and it is not valid JSON.
MalformedRead ==
    /\ pc = "read" /\ inbox # <<>> /\ nread' = nread + 1
    /\ ~Head(inbox).json

\* Line n has been read and no handler is running for it.
Handled(n) == n \in 1..nread /\ \A r \in running : r.line # n

\* C18: every line that is not valid JSON is answered with exactly one
\* ErrorResponse with code -32700 and id null (written when the line is
\* read, on a stream that is still writable; nothing is added for the line
\* afterwards), reading it neither closes the connection nor ends Serve,
\* and Serve goes on to the next line.
C18_MalformedAnswered ==
    [][/\ MalformedRead =>
            /\ StreamWritable =>
                  out' = Append(out, ErrorResponse(Null, ParseError, nread + 1))
            /\ pc' = "select"
            /\ inbox' = Tail(inbox)
            /\ UNCHANGED <<running, settled, closedCh, ctxDone, connCloses,
                           panicking, crashed>>
       /\ \A n \in 1..MaxLines :
             Handled(n) => Responses(n)' = Responses(n)]_vars

\* A line that is not valid JSON was answered with a ParseError, and the
\* request on the next line was served on the connection, still Open.
C18_Witness ==
    /\ Len(out) = 2
    /\ out[1] = ErrorResponse(Null, ParseError, 1)
    /\ out[2].kind = "result" /\ out[2].for = 2
    /\ Open

\* A JSON line that is not a JSON-RPC message the server can act on: it
\* names no method, or it carries both a result and an error.
InvalidShape(l) == l.json /\ (l.method = "" \/ (l.result /\ l.error))

\* Serve takes the next line off the stream and it is JSON of invalid shape.
InvalidShapeRead ==
    /\ pc = "read" /\ inbox # <<>> /\ nread' = nread + 1
    /\ InvalidShape(Head(inbox))

\* C19: every line that is valid JSON but not a valid JSON-RPC shape (no
\* method, or both result and error present) is answered with exactly one
\* InvalidRequest (-32600) ErrorResponse carrying the id the line had (null
\* if none), no handler is invoked for it, and the connection stays Open.
C19_InvalidShapeAnswered ==
    [][InvalidShapeRead =>
          /\ StreamWritable =>
                out' = Append(out, ErrorResponse(Head(inbox).id, InvalidRequest,
                                                 nread + 1))
          /\ pc' = "select"
          /\ UNCHANGED <<running, settled, closedCh, ctxDone, connCloses,
                         panicking, crashed>>]_vars

\* Serve takes the next line off the stream and it is a request for a
\* method that is not in the registry.
UnknownMethodRead ==
    /\ pc = "read" /\ inbox # <<>> /\ nread' = nread + 1
    /\ Head(inbox).json /\ IsRequest(Head(inbox))
    /\ Head(inbox).method \notin Registered

\* C20: every request for a method that is not registered is answered
\* with exactly one ErrorResponse with code -32601, the request's id and
\* data.method equal to the requested method (written when the line is
\* read, on a stream that is still writable; nothing is added for the line
\* afterwards), and no handler and no middleware is invoked for it.
C20_MethodNotFound ==
    [][/\ UnknownMethodRead =>
            /\ StreamWritable =>
                  /\ Len(out') = Len(out) + 1
                  /\ SubSeq(out', 1, Len(out)) = out
                  /\ out'[Len(out')].kind = "error"
                  /\ out'[Len(out')].code = MethodNotFound
                  /\ out'[Len(out')].id = Head(inbox).id
                  /\ out'[Len(out')].data = Head(inbox).method
                  /\ out'[Len(out')].for = nread + 1
            /\ running' = running
            /\ pc' = "select"
            /\ \A s \in settled' \ settled : s.does = "nomethod"
       /\ \A n \in 1..MaxLines :
             (Handled(n) /\ \E s \in settled : s.line = n /\ s.does = "nomethod")
                => (Handled(n)' /\ Responses(n)' = Responses(n))]_vars

\* A request for "nosuch" was answered with MethodNotFound naming the
\* method, no handler ran, and the connection is still Open.
C20_Witness ==
    /\ Len(out) = 1
    /\ out[1] = NewMethodNotFoundError(1, "nosuch", 1)
    /\ running = {}
    /\ \A s \in settled : s.does = "nomethod"
    /\ Open

\* Serve takes the next line off the stream and it is a notification: JSON
\* with a method and no id (an absent id and "id": null decode alike).
NotificationRead ==
    /\ pc = "read" /\ inbox # <<>> /\ nread' = nread + 1
    /\ Head(inbox).json
    /\ Head(inbox).method # "" /\ Head(inbox).id = Null

\* C21: for every notification line received no handler is invoked,
\* nothing is written on the stream, and the connection remains Open:
\* Serve goes on to the next line.
C21_NotificationSilent ==
    [][NotificationRead =>
          /\ out' = out
          /\ running' = running /\ settled' = settled
          /\ pc' = "select"
          /\ inbox' = Tail(inbox)
          /\ UNCHANGED <<closedCh, ctxDone, connCloses, panicking,
                         crashed>>]_vars

\* The first line, read on a writable stream, left no trace (it was a
\* notification); the request on the second line was then answered, and the
\* connection is Open.
C21_Witness ==
    /\ nread = 2 /\ StreamWritable /\ Open
    /\ running = {}
    /\ \A s \in settled : s.line = 2
    /\ Len(out) = 1
    /\ out[1].kind = "result" /\ out[1].for = 2

(***************************************************************************)
(* handleRequest once the handler has returned an error: ToRPCError, then  *)
(* sendError with the request's id.  An error is a record: "rpc" says      *)
(* whether its dynamic type is *RPCError, code/message/data are the        *)
(* RPCError's fields and "text" is what Error() returns for any other      *)
(* error.  Data "none" is a nil Data, "chan" a value json.Marshal rejects. *)
(***************************************************************************)
internalErrorMessage == "Internal error"

NoError == [rpc |-> FALSE, code |-> 0, message |-> "", data |-> "none", text |-> "none"]

\* Errors a handler may return.
HandlerErrors ==
    [rpc : {TRUE}, code : {AppError, InvalidRequest, InternalError},
     message : {"", "custom"}, data : {"none", "detail", "chan"}, text : {""}]
      \cup
    [rpc : {FALSE}, code : {0}, message : {""}, data : {"none"},
     text : {"", "boom"}]

NewInternalError(data) ==
    [code |-> InternalError, message |-> internalErrorMessage, data |-> data]

\* ToRPCError wrapping every error, an *RPCError included.
ToRPCErrorAlwaysWraps(e) == NewInternalError(e.text)

\* ToRPCError: an *RPCError is returned as it is, any other error becomes
\* NewInternalError(err.Error()).
ToRPCError(e) ==
    IF e.rpc
      THEN [code |-> e.code, message |-> e.message, data |-> e.data]
      ELSE NewInternalError(e.text)

ErrIdle ==
    /\ epc = "idle"
    /\ eid = Null
    /\ estream = TRUE
    /\ eerr = NoError
    /\ eout = <<>>

\* A request with an id has been dispatched to its handler.
ErrInit ==
    /\ epc = "handle"
    /\ eid \in 1..MaxLines
    /\ estream \in BOOLEAN
    /\ eerr = NoError
    /\ eout = <<>>

\* result, err := handler.Handle(ctx, req.Params) with err != nil.
ErrHandlerReturns(e) ==
    /\ epc = "handle"
    /\ eerr' = e
    /\ epc' = "error"
    /\ UNCHANGED <<eid, estream, eout>>
    /\ UNCHANGED errRest

\* c.sendError(req.ID, ToRPCError(err)): WriteJSON marshals the response
\* and writes it; a failure of either is dropped by handleRequest.
ErrSendError ==
    /\ epc = "error"
    /\ LET rpcErr == ToRPCError(eerr)
       IN eout' = IF estream /\ rpcErr.data # "chan"
                    THEN Append(eout, [id |-> eid, error |-> rpcErr])
                    ELSE eout
    /\ epc' = "sent"
    /\ UNCHANGED <<eid, estream, eerr>>
    /\ UNCHANGED errRest

\* C22: when a handler returns an error, the ErrorResponse sent (at most
\* one) carries the request's id and, if the error is an RPCError, that
\* RPCError unchanged (same code, message and data), otherwise an
\* InternalError (-32603) whose data is the error's description.
C22_ErrorConversion ==
    /\ Len(eout) <= 1
    /\ \A i \in DOMAIN eout :
          /\ eout[i].id = eid
          /\ eerr.rpc =>
                /\ eout[i].error.code = eerr.code
                /\ eout[i].error.message = eerr.message
                /\ eout[i].error.data = eerr.data
          /\ ~eerr.rpc =>
                /\ eout[i].error.code = InternalError
                /\ eout[i].error.data = eerr.text

\* A handler's own RPCError with data has been sent for the request.
C22_Witness ==
    /\ epc = "sent" /\ Len(eout) = 1
    /\ eerr.rpc /\ eerr.code = AppError /\ eerr.data = "detail"

(***************************************************************************)
(* Chain, and the loop of handleRequest that applies the connection's      *)
(* middleware: handler = middleware[i](handler) for i from the last index  *)
(* down to the first.  Every middleware is of the kind the tests use:      *)
(* it appends "before" to a shared log, calls next, appends "after".       *)
(***************************************************************************)
MiddlewareNames == {"A", "B", "C"}

RECURSIVE ListsUpTo(_)
ListsUpTo(n) ==
    IF n = 0
      THEN {<<>>}
      ELSE LET shorter == ListsUpTo(n - 1)
           IN shorter \cup {Append(q, m) : q \in shorter, m \in MiddlewareNames}

Entry(q, i, at) == [mw |-> q[i], pos |-> i, at |-> at]

HandlerEntry == [mw |-> "H", pos |-> 0, at |-> "handler"]

ChainIdle ==
    /\ cvia = "none"
    /\ clist = <<>>
    /\ ci = 0
    /\ chandler = <<>>
    /\ cpc = "idle"
    /\ cdepth = 0
    /\ clog = <<>>

\* Entry of Chain(handler, middleware...) or of handleRequest's loop.
ChainInit ==
    /\ cvia \in {"Chain", "handleRequest"}
    /\ clist \in ListsUpTo(MaxMw)
    /\ ci = Len(clist)
    /\ chandler = <<>>
    /\ cpc = "compose"
    /\ cdepth = 0
    /\ clog = <<>>

\* The loop running from the first index up.
ChainWrapForward ==
    /\ cpc = "compose" /\ ci >= 1
    /\ chandler' = <<Len(clist) + 1 - ci>> \o chandler
    /\ ci' = ci - 1
    /\ UNCHANGED <<cvia, clist, cpc, cdepth, clog>>
    /\ UNCHANGED chainRest

\* One turn of the loop: handler = middleware[i](handler); i--.
ChainWrap ==
    /\ cpc = "compose" /\ ci >= 1
    /\ chandler' = <<ci>> \o chandler
    /\ ci' = ci - 1
    /\ UNCHANGED <<cvia, clist, cpc, cdepth, clog>>
    /\ UNCHANGED chainRest

\* The loop is over (i < 0 in the code); the composed handler is invoked.
ChainInvoke ==
    /\ cpc = "compose" /\ ci = 0
    /\ cpc' = "down"
    /\ UNCHANGED <<cvia, clist, ci, chandler, cdepth, clog>>
    /\ UNCHANGED chainRest

\* The next wrapper runs its pre-logic and calls next.Handle.
ChainBefore ==
    /\ cpc = "down" /\ cdepth < Len(chandler)
    /\ clog' = Append(clog, Entry(clist, chandler[cdepth + 1], "before"))
    /\ cdepth' = cdepth + 1
    /\ UNCHANGED <<cvia, clist, ci, chandler, cpc>>
    /\ UNCHANGED chainRest

\* The base handler runs and returns.
ChainHandle ==
    /\ cpc = "down" /\ cdepth = Len(chandler)
    /\ clog' = Append(clog, HandlerEntry)
    /\ cpc' = "up"
    /\ UNCHANGED <<cvia, clist, ci, chandler, cdepth>>
    /\ UNCHANGED chainRest

\* next.Handle returned to a wrapper, which runs its post-logic and returns.
ChainAfter ==
    /\ cpc = "up" /\ cdepth > 0
    /\ clog' = Append(clog, Entry(clist, chandler[cdepth], "after"))
    /\ cdepth' = cdepth - 1
    /\ UNCHANGED <<cvia, clist, ci, chandler, cpc>>
    /\ UNCHANGED chainRest

\* The outermost wrapper returned to the caller.
ChainDone ==
    /\ cpc = "up" /\ cdepth = 0
    /\ cpc' = "done"
    /\ UNCHANGED <<cvia, clist, ci, chandler, cdepth, clog>>
    /\ UNCHANGED chainRest

\* The log of a call through [m1, ..., mn] around H, first-registered
\* outermost: m1-before, ..., mn-before, H, mn-after, ..., m1-after.
OutermostFirst(q) ==
    [k \in 1..(2 * Len(q) + 1) |->
        IF k <= Len(q) THEN Entry(q, k, "before")
        ELSE IF k = Len(q) + 1 THEN HandlerEntry
        ELSE Entry(q, 2 * Len(q) + 2 - k, "after")]

\* C23: for a middleware list [m1, ..., mn] around H, composed by Chain or
\* by the connection's dispatch, a call runs m1's pre-logic, ..., mn's, then
\* H, then the post-logic mn, ..., m1: at every moment the log is the
\* beginning of that sequence, and the whole of it when the call is over.
C23_FirstIsOutermost ==
    /\ Len(clog) <= 2 * Len(clist) + 1
    /\ clog = SubSeq(OutermostFirst(clist), 1, Len(clog))
    /\ cpc = "done" => clog = OutermostFirst(clist)

\* A call through two different middleware is over.
C23_Witness ==
    /\ cpc = "done"
    /\ Len(clist) = 2 /\ clist[1] # clist[2]
    /\ Len(clog) = 5

(***************************************************************************)
(* types.go: the predicates of Message that IsRequest and IsNotification   *)
(* above do not cover, and the classification of one decoded Message.  A   *)
(* Message is a record; method "" is an absent method, id Null a nil ID,   *)
(* result and error say whether Result and Error are non-nil.              *)
(***************************************************************************)
Messages ==
    [jsonrpc : {"", "2.0"}, method : Methods, id : 0..MaxLines,
     result : BOOLEAN, error : BOOLEAN]

IsResponse(m) == m.id # Null /\ m.method = ""

IsErrorResponse(m) == m.error /\ m.id # Null

IsSuccessResponse(m) == m.result /\ ~m.error /\ m.id # Null

NoVerdict ==
    [request |-> FALSE, notification |-> FALSE, response |-> FALSE,
     success |-> FALSE, error |-> FALSE]

MsgIdle ==
    /\ mpc = "idle"
    /\ message = [jsonrpc |-> "", method |-> "", id |-> Null,
              result |-> FALSE, error |-> FALSE]
    /\ verdict = NoVerdict

MsgInit ==
    /\ mpc = "decoded"
    /\ message \in Messages
    /\ verdict = NoVerdict

\* Every predicate is called on the message.
MsgClassify ==
    /\ mpc = "decoded"
    /\ verdict' = [request |-> IsRequest(message),
                   notification |-> IsNotification(message),
                   response |-> IsResponse(message),
                   success |-> IsSuccessResponse(message),
                   error |-> IsErrorResponse(message)]
    /\ mpc' = "classified"
    /\ UNCHANGED message
    /\ UNCHANGED msgRest

\* C24: for every Message the classification predicates equal their
\* definitions: IsRequest iff method non-empty and id non-null;
\* IsNotification iff method non-empty and id absent/null; IsResponse iff
\* id non-null and method absent; IsSuccessResponse iff IsResponse and
\* result present and error absent; IsErrorResponse iff error present and
\* id non-null.
C24_Classification ==
    mpc = "classified" =>
        /\ verdict.request = (message.method # "" /\ message.id # Null)
        /\ verdict.notification = (message.method # "" /\ message.id = Null)
        /\ verdict.response = (message.id # Null /\ message.method = "")
        /\ verdict.success = (verdict.response /\ message.result /\ ~message.error)
        /\ verdict.error = (message.error /\ message.id # Null)

(***************************************************************************)
(* Server.Stop: everything happens inside s.stopOnce.Do; err is a local    *)
(* variable of the call, assigned only by the function given to Do.        *)
(***************************************************************************)
Stoppers == 1..NumStoppers

StopIdle ==
    /\ stopOnce = "fresh"
    /\ stopper = [t \in Stoppers |-> "idle"]
    /\ stopCalls = [t \in Stoppers |-> 0]
    /\ stopErr = [t \in Stoppers |-> "nil"]
    /\ stopRet = [t \in Stoppers |-> "none"]
    /\ ranShutdown = [t \in Stoppers |-> FALSE]
    /\ listenerFails = FALSE
    /\ cleanupFails = FALSE
    /\ wgZero = FALSE
    /\ stopDeadline = FALSE
    /\ shutdownCloses = 0
    /\ listenerCloses = 0
    /\ waits = 0
    /\ srvCancels = 0
    /\ cleanups = 0
    /\ stopPanics = 0

\* A started server; whether closing the listener and removing the socket
\* file succeed is the environment's choice.
StopInit ==
    /\ stopOnce = "fresh"
    /\ stopper = [t \in Stoppers |-> "idle"]
    /\ stopCalls = [t \in Stoppers |-> 0]
    /\ stopErr = [t \in Stoppers |-> "nil"]
    /\ stopRet = [t \in Stoppers |-> "none"]
    /\ ranShutdown = [t \in Stoppers |-> FALSE]
    /\ listenerFails \in BOOLEAN
    /\ cleanupFails \in BOOLEAN
    /\ wgZero \in BOOLEAN
    /\ stopDeadline = FALSE
    /\ shutdownCloses = 0
    /\ listenerCloses = 0
    /\ waits = 0
    /\ srvCancels = 0
    /\ cleanups = 0
    /\ stopPanics = 0

\* stopOnce.Do without the Once: whoever arrives before the function has
\* finished runs it.
StopOnceEnterRacy(t) ==
    IF stopOnce # "done"
      THEN /\ stopOnce' = "running"
           /\ stopper' = [stopper EXCEPT ![t] = "shutdownCh"]
           /\ ranShutdown' = [ranShutdown EXCEPT ![t] = TRUE]
      ELSE /\ stopper' = [stopper EXCEPT ![t] = "return"]
           /\ ranShutdown' = [ranShutdown EXCEPT ![t] = FALSE]
           /\ UNCHANGED stopOnce

\* s.stopOnce.Do(f): the first caller runs f, a caller arriving while f runs
\* waits for it, later callers go on at once.
StopOnceEnter(t) ==
    IF stopOnce = "fresh"
      THEN /\ stopOnce' = "running"
           /\ stopper' = [stopper EXCEPT ![t] = "shutdownCh"]
           /\ ranShutdown' = [ranShutdown EXCEPT ![t] = TRUE]
    ELSE IF stopOnce = "running"
      THEN /\ stopper' = [stopper EXCEPT ![t] = "blocked"]
           /\ ranShutdown' = [ranShutdown EXCEPT ![t] = FALSE]
           /\ UNCHANGED stopOnce
    ELSE /\ stopper' = [stopper EXCEPT ![t] = "return"]
         /\ ranShutdown' = [ranShutdown EXCEPT ![t] = FALSE]
         /\ UNCHANGED stopOnce

\* A goroutine calls s.Stop(ctx): var err error; s.stopOnce.Do(...)
StopEnter(t) ==
    /\ stopPanics = 0
    /\ stopper[t] \in {"idle", "returned"}
    /\ stopCalls' = [stopCalls EXCEPT ![t] = Min(@ + 1, 2)]
    /\ stopErr' = [stopErr EXCEPT ![t] = "nil"]
    /\ StopOnceEnter(t)
    /\ UNCHANGED <<stopRet, listenerFails, cleanupFails, wgZero,
                   stopDeadline, shutdownCloses, listenerCloses, waits,
                   srvCancels, cleanups, stopPanics>>
    /\ UNCHANGED stopRest

\* close(s.shutdownCh); closing a closed channel panics.
StopSignal(t) ==
    /\ stopPanics = 0 /\ stopper[t] = "shutdownCh"
    /\ IF shutdownCloses > 0
         THEN /\ stopPanics' = 1
              /\ UNCHANGED <<shutdownCloses, stopper>>
         ELSE /\ shutdownCloses' = 1
              /\ stopper' = [stopper EXCEPT ![t] = "listener"]
              /\ UNCHANGED stopPanics
    /\ UNCHANGED <<stopOnce, stopCalls, stopErr, stopRet, ranShutdown,
                   listenerFails, cleanupFails, wgZero, stopDeadline,
                   listenerCloses, waits, srvCancels, cleanups>>
    /\ UNCHANGED stopRest

\* if e := s.listener.Close(); e != nil { err = ... }
StopListener(t) ==
    /\ stopPanics = 0 /\ stopper[t] = "listener"
    /\ listenerCloses' = Min(listenerCloses + 1, 2)
    /\ stopErr' = [stopErr EXCEPT ![t] = IF listenerFails THEN "listener" ELSE @]
    /\ stopper' = [stopper EXCEPT ![t] = "select"]
    /\ UNCHANGED <<stopOnce, stopCalls, stopRet, ranShutdown, listenerFails,
                   cleanupFails, wgZero, stopDeadline, shutdownCloses, waits,
                   srvCancels, cleanups, stopPanics>>
    /\ UNCHANGED stopRest

\* select: case <-done (s.wg.Wait() returned)
StopDone(t) ==
    /\ stopPanics = 0 /\ stopper[t] \in {"select", "forced"}
    /\ wgZero
    /\ waits' = Min(waits + 1, 2)
    /\ stopper' = [stopper EXCEPT ![t] = "cancel"]
    /\ UNCHANGED <<stopOnce, stopCalls, stopErr, stopRet, ranShutdown,
                   listenerFails, cleanupFails, wgZero, stopDeadline,
                   shutdownCloses, listenerCloses, srvCancels, cleanups,
                   stopPanics>>
    /\ UNCHANGED stopRest

\* select: case <-ctx.Done(): every connection is closed, then <-done.
StopTimeout(t) ==
    /\ stopPanics = 0 /\ stopper[t] = "select"
    /\ stopDeadline
    /\ stopper' = [stopper EXCEPT ![t] = "forced"]
    /\ UNCHANGED <<stopOnce, stopCalls, stopErr, stopRet, ranShutdown,
                   listenerFails, cleanupFails, wgZero, stopDeadline,
                   shutdownCloses, listenerCloses, waits, srvCancels,
                   cleanups, stopPanics>>
    /\ UNCHANGED stopRest

\* s.cancel()
StopCancel(t) ==
    /\ stopPanics = 0 /\ stopper[t] = "cancel"
    /\ srvCancels' = Min(srvCancels + 1, 2)
    /\ stopper' = [stopper EXCEPT ![t] = "cleanup"]
    /\ UNCHANGED <<stopOnce, stopCalls, stopErr, stopRet, ranShutdown,
                   listenerFails, cleanupFails, wgZero, stopDeadline,
                   shutdownCloses, listenerCloses, waits, cleanups,
                   stopPanics>>
    /\ UNCHANGED stopRest

\* if e := CleanupSocket(...); e != nil && err == nil { err = ... }; the
\* function returns and the Once is done.
StopCleanup(t) ==
    /\ stopPanics = 0 /\ stopper[t] = "cleanup"
    /\ cleanups' = Min(cleanups + 1, 2)
    /\ stopErr' = [stopErr EXCEPT ![t] =
                      IF cleanupFails /\ @ = "nil" THEN "cleanup" ELSE @]
    /\ stopOnce' = "done"
    /\ stopper' = [stopper EXCEPT ![t] = "return"]
    /\ UNCHANGED <<stopCalls, stopRet, ranShutdown, listenerFails,
                   cleanupFails, wgZero, stopDeadline, shutdownCloses,
                   listenerCloses, waits, srvCancels, stopPanics>>
    /\ UNCHANGED stopRest

\* A caller that found the function running goes on once it has finished.
StopUnblock(t) ==
    /\ stopPanics = 0 /\ stopper[t] = "blocked"
    /\ stopOnce = "done"
    /\ stopper' = [stopper EXCEPT ![t] = "return"]
    /\ UNCHANGED <<stopOnce, stopCalls, stopErr, stopRet, ranShutdown,
                   listenerFails, cleanupFails, wgZero, stopDeadline,
                   shutdownCloses, listenerCloses, waits, srvCancels,
                   cleanups, stopPanics>>
    /\ UNCHANGED stopRest

\* return err
StopReturnErr(t) ==
    /\ stopPanics = 0 /\ stopper[t] = "return"
    /\ stopRet' = [stopRet EXCEPT ![t] = stopErr[t]]
    /\ stopper' = [stopper EXCEPT ![t] = "returned"]
    /\ UNCHANGED <<stopOnce, stopCalls, stopErr, ranShutdown, listenerFails,
                   cleanupFails, wgZero, stopDeadline, shutdownCloses,
                   listenerCloses, waits, srvCancels, cleanups, stopPanics>>
    /\ UNCHANGED stopRest

\* The last handleConnection goroutine returns (s.wg reaches zero).
StopConnsFinish ==
    /\ ~wgZero
    /\ wgZero' = TRUE
    /\ UNCHANGED <<stopOnce, stopper, stopCalls, stopErr, stopRet,
                   ranShutdown, listenerFails, cleanupFails, stopDeadline,
                   shutdownCloses, listenerCloses, waits, srvCancels,
                   cleanups, stopPanics>>
    /\ UNCHANGED stopRest

\* The context given to Stop expires.
StopDeadlineExpires ==
    /\ ~stopDeadline
    /\ stopDeadline' = TRUE
    /\ UNCHANGED <<stopOnce, stopper, stopCalls, stopErr, stopRet,
                   ranShutdown, listenerFails, cleanupFails, wgZero,
                   shutdownCloses, listenerCloses, waits, srvCancels,
                   cleanups, stopPanics>>
    /\ UNCHANGED stopRest

SetIdle ==
    /\ bmKeys = {}
    /\ adds = [c \in Conns |-> 0]
    /\ bmClosed = {}
    /\ countPos = "idle"
    /\ countVisited = {}
    /\ countStable = {}
    /\ countEver = {}
    /\ countSizes = {}
    /\ countN = 0
    /\ countRet = -1
    /\ clearPos = "idle"
    /\ clearVisited = {}
    /\ clearStable = {}
    /\ clearQuiet = TRUE

\* What a change of the map from keys to keys2 means for the Count and the
\* Clear in progress.
Observed(keys2) ==
    /\ countStable' = IF countPos = "range" THEN countStable \cap keys2
                                              ELSE countStable
    /\ countEver' = IF countPos = "range" THEN countEver \cup keys2 ELSE countEver
    /\ countSizes' = IF countPos = "range"
                       THEN countSizes \cup {Cardinality(keys2)}
                       ELSE countSizes
    /\ clearStable' = IF clearPos = "range" THEN clearStable \cap keys2
                                              ELSE clearStable

\* bm.Add(conn): Store(conn, true).
Add(c) ==
    /\ bmKeys' = bmKeys \cup {c}
    /\ adds' = [adds EXCEPT ![c] = Min(@ + 1, 2)]
    /\ clearQuiet' = FALSE
    /\ Observed(bmKeys \cup {c})
    /\ UNCHANGED <<bmClosed, countPos, countVisited, countN, countRet,
                   clearPos, clearVisited>>
    /\ UNCHANGED setRest

\* bm.Remove(conn): Delete(conn).
Remove(c) ==
    /\ bmKeys' = bmKeys \ {c}
    /\ adds' = [adds EXCEPT ![c] = 0]
    /\ Observed(bmKeys \ {c})
    /\ UNCHANGED <<bmClosed, countPos, countVisited, countN, countRet,
                   clearPos, clearVisited, clearQuiet>>
    /\ UNCHANGED setRest

\* bm.Count() is called: count := 0 and Range starts.
CountCall ==
    /\ countPos \in {"idle", "returned"}
    /\ countPos' = "range"
    /\ countN' = 0
    /\ countVisited' = {}
    /\ countStable' = bmKeys
    /\ countEver' = bmKeys
    /\ countSizes' = {Cardinality(bmKeys)}
    /\ countRet' = -1
    /\ UNCHANGED <<bmKeys, adds, bmClosed, clearPos, clearVisited,
                   clearStable, clearQuiet>>
    /\ UNCHANGED setRest

\* A callback that counts an entry once for every Add of its connection.
CountVisitPerAdd(c) ==
    /\ countPos = "range"
    /\ c \in bmKeys \ countVisited
    /\ countVisited' = countVisited \cup {c}
    /\ countN' = countN + adds[c]
    /\ UNCHANGED <<bmKeys, adds, bmClosed, countPos, countStable, countEver,
                   countSizes, countRet, clearPos, clearVisited, clearStable,
                   clearQuiet>>
    /\ UNCHANGED setRest

\* Range hands the next key to the callback: count++.
CountVisit(c) ==
    /\ countPos = "range"
    /\ c \in bmKeys \ countVisited
    /\ countVisited' = countVisited \cup {c}
    /\ countN' = countN + 1
    /\ UNCHANGED <<bmKeys, adds, bmClosed, countPos, countStable, countEver,
                   countSizes, countRet, clearPos, clearVisited, clearStable,
                   clearQuiet>>
    /\ UNCHANGED setRest

\* Range is over; return count (the locals of the call are gone).
CountReturn ==
    /\ countPos = "range"
    /\ countStable \subseteq countVisited
    /\ countRet' = countN
    /\ countPos' = "returned"
    /\ countVisited' = {}
    /\ countN' = 0
    /\ UNCHANGED <<bmKeys, adds, bmClosed, countStable, countEver,
                   countSizes, clearPos, clearVisited, clearStable,
                   clearQuiet>>
    /\ UNCHANGED setRest

\* bm.Clear() is called: Range starts.
ClearCall ==
    /\ clearPos \in {"idle", "returned"}
    /\ clearPos' = "range"
    /\ clearVisited' = {}
    /\ clearStable' = bmKeys
    /\ clearQuiet' = TRUE
    /\ UNCHANGED <<bmKeys, adds, bmClosed, countPos, countVisited,
                   countStable, countEver, countSizes, countN, countRet>>
    /\ UNCHANGED setRest

\* Range hands the next key to the callback: Delete(key).
ClearVisit(c) ==
    /\ clearPos = "range"
    /\ c \in bmKeys \ clearVisited
    /\ clearVisited' = clearVisited \cup {c}
    /\ bmKeys' = bmKeys \ {c}
    /\ adds' = [adds EXCEPT ![c] = 0]
    /\ Observed(bmKeys \ {c})
    /\ UNCHANGED <<bmClosed, countPos, countVisited, countN, countRet,
                   clearPos, clearQuiet>>
    /\ UNCHANGED setRest

\* Clear's Range is over.
ClearReturn ==
    /\ clearPos = "range"
    /\ clearStable \subseteq clearVisited
    /\ clearPos' = "returned"
    /\ clearVisited' = {}
    /\ clearStable' = {}
    /\ UNCHANGED <<bmKeys, adds, bmClosed, countPos, countVisited,
                   countStable, countEver, countSizes, countN, countRet,
                   clearQuiet>>
    /\ UNCHANGED setRest

\* The connections that have been added and not since removed.
Added == {c \in Conns : adds[c] > 0}

\* C26 as stated: membership is a set and Count() always equals the number
\* of distinct connections added and not since removed: every Count returns
\* a size the membership had at some moment of the call; Count is 0 after
\* Clear, which closes no connection.
C26_CountAlwaysExact ==
    /\ bmKeys = Added
    /\ bmClosed = {}
    /\ countPos = "returned" => countRet \in countSizes
    /\ (clearPos = "returned" /\ clearQuiet) => bmKeys = {}

\* C26, amended: membership is a set (a connection added twice is one
\* member, removing an absent connection changes nothing); a Count() during
\* which the membership does not change returns the number of distinct
\* connections added and not since removed, and any Count() returns at
\* least the number of connections that were members throughout the call
\* and at most the number that were members at some moment of it; after a
\* Clear() that no Add overlapped or followed the membership is empty, and
\* Clear closes no connection.
C26_SetSemantics ==
    /\ bmKeys = Added
    /\ bmClosed = {}
    /\ countPos = "returned" =>
          /\ Cardinality(countStable) <= countRet
          /\ countRet <= Cardinality(countEver)
          /\ Cardinality(countSizes) = 1 => countRet \in countSizes
    /\ (countPos = "returned" /\ countSizes = {Cardinality(bmKeys)}) =>
          countRet = Cardinality(Added)
    /\ (clearPos = "returned" /\ clearQuiet) => bmKeys = {}

\* A connection was added twice and another once; Count, with no change
\* meanwhile, returned 2.
C26_Witness ==
    /\ countPos = "returned" /\ countRet = 2
    /\ Cardinality(countSizes) = 1
    /\ \E c \in Conns : adds[c] = 2
    /\ Cardinality(Added) = 2

(***************************************************************************)
(* LineDelimitedCodec: ReadMessage runs under readMu and waits in          *)
(* reader.ReadBytes until a line is there; WriteMessage runs under writeMu *)
(* and waits in writer.Flush while the stream takes no bytes.              *)
(***************************************************************************)
CodecReaders == 1..NumReaders
CodecWriters == 1..NumNotifiers

CodecIdle ==
    /\ readMu = {}
    /\ codecWriteMu = {}
    /\ rdpos = [r \in CodecReaders |-> "idle"]
    /\ wtpos = [w \in CodecWriters |-> "idle"]
    /\ arrived = 0
    /\ unread = 0
    /\ room = TRUE
    /\ wroteBlocked = FALSE
    /\ readBlocked = FALSE

\* A goroutine is inside ReadBytes with nothing to read.
ReaderWaiting == unread = 0 /\ \E r \in CodecReaders : rdpos[r] = "read"

\* A goroutine is inside Flush with the stream taking no bytes.
WriterWaiting == ~room /\ \E w \in CodecWriters : wtpos[w] = "flush"

\* A goroutine calls ReadMessage.
CodecReadCall(r) ==
    /\ rdpos[r] = "idle"
    /\ rdpos' = [rdpos EXCEPT ![r] = "lock"]
    /\ UNCHANGED <<readMu, codecWriteMu, wtpos, arrived, unread, room,
                   wroteBlocked, readBlocked>>
    /\ UNCHANGED codecRest

\* c.readMu.Lock()
CodecReadLock(r) ==
    /\ rdpos[r] = "lock"
    /\ readMu = {}
    /\ readMu' = {r}
    /\ rdpos' = [rdpos EXCEPT ![r] = "read"]
    /\ UNCHANGED <<codecWriteMu, wtpos, arrived, unread, room, wroteBlocked,
                   readBlocked>>
    /\ UNCHANGED codecRest

\* c.reader.ReadBytes('\n') returns a line.
CodecReadBytes(r) ==
    /\ rdpos[r] = "read"
    /\ unread > 0
    /\ unread' = unread - 1
    /\ rdpos' = [rdpos EXCEPT ![r] = "unlock"]
    /\ readBlocked' = (readBlocked \/ WriterWaiting)
    /\ UNCHANGED <<readMu, codecWriteMu, wtpos, arrived, room, wroteBlocked>>
    /\ UNCHANGED codecRest

\* ReadMessage returns: the deferred c.readMu.Unlock().
CodecReadUnlock(r) ==
    /\ rdpos[r] = "unlock"
    /\ readMu' = readMu \ {r}
    /\ rdpos' = [rdpos EXCEPT ![r] = "returned"]
    /\ UNCHANGED <<codecWriteMu, wtpos, arrived, unread, room, wroteBlocked,
                   readBlocked>>
    /\ UNCHANGED codecRest

\* A goroutine calls WriteMessage.
CodecWriteCall(w) ==
    /\ wtpos[w] = "idle"
    /\ wtpos' = [wtpos EXCEPT ![w] = "lock"]
    /\ UNCHANGED <<readMu, codecWriteMu, rdpos, arrived, unread, room,
                   wroteBlocked, readBlocked>>
    /\ UNCHANGED codecRest

\* A codec with one mutex for both directions.
CodecWriteLockOneMutex(w) ==
    /\ wtpos[w] = "lock"
    /\ codecWriteMu = {} /\ readMu = {}
    /\ codecWriteMu' = {w}
    /\ wtpos' = [wtpos EXCEPT ![w] = "flush"]
    /\ UNCHANGED <<readMu, rdpos, arrived, unread, room, wroteBlocked,
                   readBlocked>>
    /\ UNCHANGED codecRest

\* c.writeMu.Lock(); Write and WriteByte fill the buffer.
CodecWriteLock(w) ==
    /\ wtpos[w] = "lock"
    /\ codecWriteMu = {}
    /\ codecWriteMu' = {w}
    /\ wtpos' = [wtpos EXCEPT ![w] = "flush"]
    /\ UNCHANGED <<readMu, rdpos, arrived, unread, room, wroteBlocked,
                   readBlocked>>
    /\ UNCHANGED codecRest

\* c.writer.Flush() hands the message to the stream.
CodecFlush(w) ==
    /\ wtpos[w] = "flush"
    /\ room
    /\ wtpos' = [wtpos EXCEPT ![w] = "unlock"]
    /\ wroteBlocked' = (wroteBlocked \/ ReaderWaiting)
    /\ UNCHANGED <<readMu, codecWriteMu, rdpos, arrived, unread, room,
                   readBlocked>>
    /\ UNCHANGED codecRest

\* WriteMessage returns: the deferred c.writeMu.Unlock().
CodecWriteUnlock(w) ==
    /\ wtpos[w] = "unlock"
    /\ codecWriteMu' = codecWriteMu \ {w}
    /\ wtpos' = [wtpos EXCEPT ![w] = "returned"]
    /\ UNCHANGED <<readMu, rdpos, arrived, unread, room, wroteBlocked,
                   readBlocked>>
    /\ UNCHANGED codecRest

\* The peer writes a line.
CodecPeerWrites ==
    /\ arrived < MaxLines
    /\ arrived' = arrived + 1
    /\ unread' = unread + 1
    /\ UNCHANGED <<readMu, codecWriteMu, rdpos, wtpos, room, wroteBlocked,
                   readBlocked>>
    /\ UNCHANGED codecRest

\* The peer stops reading (the stream fills up) or reads again.
CodecPeerStalls ==
    /\ room' = ~room
    /\ UNCHANGED <<readMu, codecWriteMu, rdpos, wtpos, arrived, unread,
                   wroteBlocked, readBlocked>>
    /\ UNCHANGED codecRest

InRead == {r \in CodecReaders : rdpos[r] \in {"read", "unlock"}}
InWrite == {w \in CodecWriters : wtpos[w] \in {"flush", "unlock"}}

\* C27: the codec's two directions are independent and each is serialized:
\* at most one goroutine is inside ReadMessage's critical section and at
\* most one inside WriteMessage's; a WriteMessage can take its lock
\* whenever no other WriteMessage holds it and can finish whenever the
\* stream takes bytes, whatever ReadMessage callers are doing (waiting for
\* input included); a ReadMessage can take its lock whenever no other
\* ReadMessage holds it and can return whenever a line is there, whatever
\* WriteMessage callers are doing.
C27_DirectionsIndependent ==
    /\ Cardinality(InRead) <= 1 /\ readMu = InRead
    /\ Cardinality(InWrite) <= 1 /\ codecWriteMu = InWrite
    /\ \A w \in CodecWriters :
          /\ (wtpos[w] = "lock" /\ InWrite = {}) => ENABLED CodecWriteLock(w)
          /\ (wtpos[w] = "flush" /\ room) => ENABLED CodecFlush(w)
          /\ wtpos[w] = "unlock" => ENABLED CodecWriteUnlock(w)
    /\ \A r \in CodecReaders :
          /\ (rdpos[r] = "lock" /\ InRead = {}) => ENABLED CodecReadLock(r)
          /\ (rdpos[r] = "read" /\ unread > 0) => ENABLED CodecReadBytes(r)
          /\ rdpos[r] = "unlock" => ENABLED CodecReadUnlock(r)

\* A WriteMessage went through and returned while a ReadMessage was
\* waiting for input (it still is), and a ReadMessage returned a line while
\* a WriteMessage was waiting for room.
C27_Witness ==
    /\ wroteBlocked /\ readBlocked
    /\ ReaderWaiting
    /\ \E w \in CodecWriters : wtpos[w] = "returned"
    /\ \E r \in CodecReaders : rdpos[r] = "returned"

(***************************************************************************)
(* LineDelimitedCodec.ReadMessage as a function of the bytes left in the   *)
(* stream.  A byte is "LF" (newline), "CR" (carriage return) or a letter.  *)
(***************************************************************************)
Bytes == {"a", "b", "CR", "LF"}

RECURSIVE StreamsUpTo(_)
StreamsUpTo(n) ==
    IF n = 0
      THEN {<<>>}
      ELSE LET shorter == StreamsUpTo(n - 1)
           IN shorter \cup {Append(s, b) : s \in shorter, b \in Bytes}

\* Index of the first newline of s, 0 if there is none.
FirstLF(s) ==
    IF \E i \in DOMAIN s : s[i] = "LF"
      THEN CHOOSE i \in DOMAIN s : s[i] = "LF" /\ \A j \in 1..(i - 1) : s[j] # "LF"
      ELSE 0

\* The trimming with every trailing occurrence removed.
RECURSIVE TrimEvery(_, _)
TrimEvery(line, c) ==
    IF Len(line) > 0 /\ line[Len(line)] = c
      THEN TrimEvery(SubSeq(line, 1, Len(line) - 1), c)
      ELSE line

\* if len(line) > 0 && line[len(line)-1] == c { line = line[:len(line)-1] }
TrimLast(line, c) ==
    IF Len(line) > 0 /\ line[Len(line)] = c
      THEN SubSeq(line, 1, Len(line) - 1)
      ELSE line

\* One call on the bytes s: the loop around reader.ReadBytes('\n').  At end
\* of stream what is left is returned as it is if it is not empty,
\* otherwise the call fails.
RECURSIVE ReadMessage(_)
ReadMessage(s) ==
    LET n == FirstLF(s)
    IN IF n = 0
         THEN IF Len(s) > 0
                THEN [msg |-> s, err |-> FALSE, rest |-> <<>>]
                ELSE [msg |-> <<>>, err |-> TRUE, rest |-> <<>>]
         ELSE LET line == TrimLast(TrimLast(SubSeq(s, 1, n), "LF"), "CR")
                  rest == SubSeq(s, n + 1, Len(s))
              IN IF Len(line) = 0
                   THEN ReadMessage(rest)
                   ELSE [msg |-> line, err |-> FALSE, rest |-> rest]

FrameIdle ==
    /\ stream = <<>>
    /\ pending = <<>>
    /\ messages = <<>>
    /\ readErr = FALSE

FrameInit ==
    /\ stream \in StreamsUpTo(MaxBytes)
    /\ pending = stream
    /\ messages = <<>>
    /\ readErr = FALSE

\* codec.ReadMessage() is called.
ReadMessageCall ==
    /\ ~readErr
    /\ LET r == ReadMessage(pending)
       IN /\ pending' = r.rest
          /\ readErr' = r.err
          /\ messages' = IF r.err THEN messages ELSE Append(messages, r.msg)
    /\ UNCHANGED stream
    /\ UNCHANGED frameRest

\* Positions of the newlines of s.
Newlines(s) == {i \in DOMAIN s : s[i] = "LF"}

\* The k-th newline-terminated line of s, without its newline.
RawLine(s, k) ==
    LET end == CHOOSE i \in Newlines(s) :
                   Cardinality({j \in Newlines(s) : j <= i}) = k
        begin == IF k = 1 THEN 1
                 ELSE 1 + CHOOSE i \in Newlines(s) :
                              Cardinality({j \in Newlines(s) : j <= i}) = k - 1
    IN SubSeq(s, begin, end - 1)

\* A line without one trailing carriage return.
Stripped(l) ==
    IF l # <<>> /\ l[Len(l)] = "CR" THEN SubSeq(l, 1, Len(l) - 1) ELSE l

\* The newline-terminated lines of s, in order, stripped, the empty ones
\* left out.
RECURSIVE LinesFrom(_, _)
LinesFrom(s, k) ==
    IF k > Cardinality(Newlines(s))
      THEN <<>>
      ELSE LET l == Stripped(RawLine(s, k))
           IN (IF l = <<>> THEN <<>> ELSE <<l>>) \o LinesFrom(s, k + 1)

\* What follows the last newline of s, as a message if it is not empty.
Remainder(s) ==
    LET last == IF Newlines(s) = {} THEN 0
                ELSE CHOOSE i \in Newlines(s) : \A j \in Newlines(s) : j <= i
    IN IF last = Len(s) THEN <<>> ELSE <<SubSeq(s, last + 1, Len(s))>>

\* C28: ReadMessage returns the newline-terminated lines of the stream in
\* order, each without its terminator and with one trailing carriage
\* return stripped, skipping the lines that are empty after stripping (at
\* end of stream, an unterminated rest follows as a last message): what has
\* been returned is always the beginning of that sequence, all of it once a
\* call has failed, and never contains an empty message.
C28_Framing ==
    LET expected == LinesFrom(stream, 1) \o Remainder(stream)
    IN /\ Len(messages) <= Len(expected)
       /\ messages = SubSeq(expected, 1, Len(messages))
       /\ readErr => messages = expected
       /\ \A i \in DOMAIN messages : messages[i] # <<>>
       /\ \A i \in DOMAIN messages :
             i <= Len(LinesFrom(stream, 1)) =>
                \A j \in DOMAIN messages[i] : messages[i][j] # "LF"

\* The stream "a CR LF LF b LF" has been read to its end: two messages, the
\* carriage return stripped and the empty line skipped.
C28_Witness ==
    /\ readErr
    /\ \E x, y \in Bytes \ {"CR", "LF"} :
          /\ stream = <<x, "CR", "LF", "LF", y, "LF">>
          /\ messages = <<(<<x>>), (<<y>>)>>

(***************************************************************************)
(* Cancellation as a handler sees it.                                      *)
(***************************************************************************)
\* handleRequest: ctx := c.ctx, then WithMethod, WithRequestID and
\* WithConnection, which only attach values: the context handed to the
\* handler of request r is done exactly when c.ctx is.
RequestCtxDone(r) == ctxDone

\* Some Close() call has returned.
CloseReturned == \E t \in CloseCallers : closer[t] = "returned"

\* C29: after a Close() call has returned, Context() is cancelled and so is
\* the context of every handler still running on the connection.
C29_CloseCancelsContexts ==
    CloseReturned =>
        /\ ctxDone
        /\ \A r \in running : RequestCtxDone(r)

\* A Close() call made from outside Serve has returned while a handler was
\* still running, and nobody but Close cancelled the context.
C29_Witness ==
    /\ \E t \in Closers : closer[t] = "returned"
    /\ running # {}
    /\ pc = "handle"
    /\ cancels = 1
    /\ ~crashed

(***************************************************************************)
(* HandlerRegistry used from one goroutine: Register, Unregister, Clear    *)
(* and Get on the map, one call after the other.                           *)
(***************************************************************************)
MethodNames == {"echo", "ping"}

HandlerValues == {"h1", "h2"}

NoLookup == [method |-> "", handler |-> "nil", ok |-> FALSE, at |-> 0]

\* NewHandlerRegistry(): an empty map.
TableIdle ==
    /\ table = [m \in MethodNames |-> "absent"]
    /\ history = <<>>
    /\ lookup = NoLookup

\* Register that leaves an existing entry as it is.
RegisterIfAbsent(m, h) ==
    /\ Len(history) < MaxCalls
    /\ table' = IF table[m] = "absent" THEN [table EXCEPT ![m] = h] ELSE table
    /\ history' = Append(history, [op |-> "Register", method |-> m, handler |-> h])
    /\ UNCHANGED lookup
    /\ UNCHANGED tableRest

\* r.handlers[method] = handler
Register(m, h) ==
    /\ Len(history) < MaxCalls
    /\ table' = [table EXCEPT ![m] = h]
    /\ history' = Append(history, [op |-> "Register", method |-> m, handler |-> h])
    /\ UNCHANGED lookup
    /\ UNCHANGED tableRest

\* delete(r.handlers, method): nothing happens if the key is missing.
Unregister(m) ==
    /\ Len(history) < MaxCalls
    /\ table' = [table EXCEPT ![m] = "absent"]
    /\ history' = Append(history, [op |-> "Unregister", method |-> m, handler |-> "nil"])
    /\ UNCHANGED lookup
    /\ UNCHANGED tableRest

\* r.handlers = make(map[string]Handler)
Clear ==
    /\ Len(history) < MaxCalls
    /\ table' = [m \in MethodNames |-> "absent"]
    /\ history' = Append(history, [op |-> "Clear", method |-> "", handler |-> "nil"])
    /\ UNCHANGED lookup
    /\ UNCHANGED tableRest

\* handler, ok := r.handlers[method]
Get(m) ==
    /\ lookup' = IF table[m] = "absent"
                   THEN [method |-> m, handler |-> "nil", ok |-> FALSE,
                         at |-> Len(history)]
                   ELSE [method |-> m, handler |-> table[m], ok |-> TRUE,
                         at |-> Len(history)]
    /\ lookup' # lookup
    /\ UNCHANGED <<table, history>>
    /\ UNCHANGED tableRest

\* The calls among the first n that register m and are followed, within the
\* first n, by no Unregister(m) and no Clear().
LiveRegistrations(m, n) ==
    {i \in 1..n :
        /\ history[i].op = "Register" /\ history[i].method = m
        /\ \A j \in (i + 1)..n :
              ~(\/ history[j].op = "Clear"
                \/ history[j].op = "Unregister" /\ history[j].method = m)}

\* C30: Get(m) returns the handler of the most recent Register(m, h) not
\* followed by Unregister(m) or Clear(), and reports not-found if there is
\* none; every Register and Unregister call completes, on an existing name
\* and on an absent one alike.
C30_LastWriteWins ==
    /\ lookup # NoLookup =>
          LET live == LiveRegistrations(lookup.method, lookup.at)
          IN IF live = {}
               THEN ~lookup.ok /\ lookup.handler = "nil"
               ELSE /\ lookup.ok
                    /\ lookup.handler =
                          history[CHOOSE i \in live : \A j \in live : j <= i].handler
    /\ Len(history) < MaxCalls =>
          \A m \in MethodNames :
              /\ ENABLED Unregister(m)
              /\ \A h \in HandlerValues : ENABLED Register(m, h)

\* A name was registered twice with different handlers, another name was
\* unregistered though absent, and Get found the second handler.
C30_Witness ==
    /\ Len(history) >= 3
    /\ \E m, o \in MethodNames :
          /\ m # o
          /\ history[1] = [op |-> "Register", method |-> m, handler |-> "h1"]
          /\ history[2] = [op |-> "Register", method |-> m, handler |-> "h2"]
          /\ history[3] = [op |-> "Unregister", method |-> o, handler |-> "nil"]
          /\ lookup = [method |-> m, handler |-> "h2", ok |-> TRUE, at |-> 3]

(***************************************************************************)
(* errors.go: ErrorFromCode.  A message is a format and its arguments.     *)
(***************************************************************************)
InvalidParams == -32602
ServerErrorStart == -32099
ServerErrorEnd == -32000

Text(s) == [fmt |-> s, args |-> <<>>]

\* fmt.Sprintf("Error code %d", code)
Sprintf(f, n) == [fmt |-> f, args |-> <<n>>]

NewError(code, msg) == [code |-> code, message |-> msg]

\* The test of the default branch of ErrorFromCode.
InServerBand(code) == code >= ServerErrorEnd /\ code <= ServerErrorStart

ErrorFromCode(code) ==
    IF code = ParseError THEN NewError(ParseError, Text("Parse error"))
    ELSE IF code = InvalidRequest THEN NewError(InvalidRequest, Text("Invalid Request"))
    ELSE IF code = MethodNotFound THEN NewError(MethodNotFound, Text("Method not found"))
    ELSE IF code = InvalidParams THEN NewError(InvalidParams, Text("Invalid params"))
    ELSE IF code = InternalError THEN NewError(InternalError, Text(internalErrorMessage))
    ELSE IF InServerBand(code) THEN NewError(code, Text("Server error"))
    ELSE NewError(code, Sprintf("Error code %d", code))

\* The codes tried: the standard ones, the reserved band with what lies
\* around it, and application codes.
CodesTried ==
    {ParseError, InvalidRequest, MethodNotFound, InvalidParams, InternalError}
        \cup ((ServerErrorStart - BandMargin)..(ServerErrorEnd + BandMargin))
        \cup {-1, 0, 1}

NoRPCError == [code |-> 0, message |-> Text("")]

CodeIdle ==
    /\ askedCode = 0
    /\ fromCode = NoRPCError

CodeInit ==
    /\ askedCode \in CodesTried
    /\ fromCode = NoRPCError

ErrorFromCodeCall ==
    /\ fromCode = NoRPCError
    /\ fromCode' = ErrorFromCode(askedCode)
    /\ UNCHANGED askedCode
    /\ UNCHANGED codeRest

\* C31: ErrorFromCode(code) carries the code, with the message "Server
\* error" for every code from -32099 to -32000, the standard message for
\* each of the five standard codes and a generic message for any other.
C31_ErrorFromCode ==
    fromCode # NoRPCError =>
        /\ fromCode.code = askedCode
        /\ (askedCode >= -32099 /\ askedCode <= -32000) =>
              fromCode.message = Text("Server error")
        /\ askedCode = -32700 => fromCode.message = Text("Parse error")
        /\ askedCode = -32600 => fromCode.message = Text("Invalid Request")
        /\ askedCode = -32601 => fromCode.message = Text("Method not found")
        /\ askedCode = -32602 => fromCode.message = Text("Invalid params")
        /\ askedCode = -32603 => fromCode.message = Text("Internal error")
        /\ askedCode \notin ({-32700, -32600, -32601, -32602, -32603}
                               \cup (-32099..-32000)) =>
              fromCode.message = Sprintf("Error code %d", askedCode)

(***************************************************************************)
(* The Node client.  JavaScript runs one callback at a time: every action  *)
(* below is one call of the application or one callback of a socket or of  *)
(* a timer, run to its end.  A socket emits 'connect' once or fails; an    *)
(* open socket emits 'end' when the peer closes, 'error' when it fails,    *)
(* and 'close' as its last event; after destroy() it emits only 'close'.   *)
(***************************************************************************)
Sockets == 1..MaxSockets
Ids == 1..MaxRequests

NotClosed == [how |-> "no", sock |-> 0]

NodeIdle ==
    /\ autoReconnect = FALSE
    /\ clientState = "disconnected"
    /\ socket = 0
    /\ nsock = 0
    /\ sockSt = [s \in Sockets |-> "none"]
    /\ connTimer = [s \in Sockets |-> FALSE]
    /\ reconnectAttempts = 0
    /\ rtimers = 0
    /\ requestId = 0
    /\ issued = <<>>
    /\ pendingRequests = {}
    /\ reqTimer = {}
    /\ outcome = [i \in Ids |-> <<>>]
    /\ appClosed = NotClosed
    /\ sinceClose = {}
    /\ openedSince = FALSE
    /\ lostConn = FALSE
    /\ tries = 0

\* new JSONRPCClient(config), with either value of autoReconnect and
\* maxReconnectAttempts = MaxAttempts.
NodeInit ==
    /\ autoReconnect \in BOOLEAN
    /\ clientState = "disconnected"
    /\ socket = 0
    /\ nsock = 0
    /\ sockSt = [s \in Sockets |-> "none"]
    /\ connTimer = [s \in Sockets |-> FALSE]
    /\ reconnectAttempts = 0
    /\ rtimers = 0
    /\ requestId = 0
    /\ issued = <<>>
    /\ pendingRequests = {}
    /\ reqTimer = {}
    /\ outcome = [i \in Ids |-> <<>>]
    /\ appClosed = NotClosed
    /\ sinceClose = {}
    /\ openedSince = FALSE
    /\ lostConn = FALSE
    /\ tries = 0

\* The events emitted by a callback, recorded once disconnect() was called.
Emitted(evs) == IF appClosed.how = "no" THEN sinceClose ELSE sinceClose \cup evs

\* socket.destroy(): nothing happens on a socket that is already closing.
Destroyed(s) ==
    IF s # 0 /\ sockSt[s] \in {"connecting", "open", "ended"}
      THEN [sockSt EXCEPT ![s] = "closing"]
      ELSE sockSt

\* Settling the promise of request id.
Settle(id, how) == [outcome EXCEPT ![id] = Append(@, how)]

Answer(id) == [by |-> "response", id |-> id]

Failure(text) == [by |-> text, id |-> 0]

\* Every pending request is rejected with the given error.
RejectAll(why) ==
    /\ outcome' = [i \in Ids |->
                     IF i \in pendingRequests THEN Append(outcome[i], why)
                     ELSE outcome[i]]
    /\ reqTimer' = reqTimer \ pendingRequests
    /\ pendingRequests' = {}

\* The body of connect() once it has decided to open a socket.
OpenSocket ==
    /\ clientState' = "connecting"
    /\ nsock' = nsock + 1
    /\ socket' = nsock + 1
    /\ sockSt' = [sockSt EXCEPT ![nsock + 1] = "connecting"]
    /\ connTimer' = [connTimer EXCEPT ![nsock + 1] = TRUE]

\* The application calls connect() while neither connected nor connecting.
connect ==
    /\ clientState \notin {"connected", "connecting"}
    /\ nsock < MaxSockets
    /\ OpenSocket
    /\ appClosed' = NotClosed
    /\ sinceClose' = {}
    /\ openedSince' = FALSE
    /\ lostConn' = FALSE
    /\ tries' = 0
    /\ UNCHANGED <<autoReconnect, reconnectAttempts, rtimers, requestId,
                   issued, pendingRequests, reqTimer, outcome>>
    /\ UNCHANGED nodeRest

\* The application calls disconnect() in a state where it does something.
disconnect ==
    /\ clientState \notin {"disconnected", "closed"}
    /\ clientState' = "closed"
    /\ RejectAll(Failure("Client disconnected"))
    /\ sockSt' = Destroyed(socket)
    /\ socket' = 0
    /\ appClosed' = [how |-> IF clientState = "connected" THEN "connected"
                             ELSE "other",
                     sock |-> socket]
    /\ sinceClose' = {}
    /\ openedSince' = FALSE
    /\ lostConn' = FALSE
    /\ tries' = 0
    /\ UNCHANGED <<autoReconnect, nsock, connTimer, reconnectAttempts,
                   rtimers, requestId, issued>>
    /\ UNCHANGED nodeRest

\* handleDisconnect(), called by a socket callback that has emitted evs.
handleDisconnect(evs) ==
    IF clientState = "closed"
      THEN /\ sinceClose' = Emitted(evs)
           /\ UNCHANGED <<clientState, reconnectAttempts, rtimers,
                          pendingRequests, reqTimer, outcome, lostConn, tries>>
      ELSE /\ RejectAll(Failure("Connection lost"))
           /\ IF clientState = "connected"
                THEN /\ lostConn' = TRUE
                     /\ tries' = 0
                     /\ IF autoReconnect /\ reconnectAttempts < MaxAttempts
                          THEN /\ reconnectAttempts' = reconnectAttempts + 1
                               /\ clientState' = "reconnecting"
                               /\ rtimers' = rtimers + 1
                               /\ sinceClose' =
                                     Emitted(evs \cup {"disconnected", "reconnecting"})
                          ELSE /\ clientState' = "disconnected"
                               /\ sinceClose' = Emitted(evs \cup {"disconnected"})
                               /\ UNCHANGED <<reconnectAttempts, rtimers>>
                ELSE /\ clientState' = "disconnected"
                     /\ sinceClose' = Emitted(evs)
                     /\ UNCHANGED <<reconnectAttempts, rtimers, lostConn, tries>>

\* socket.on('connect')
OnConnect(s) ==
    /\ sockSt[s] = "connecting"
    /\ sockSt' = [sockSt EXCEPT ![s] = "open"]
    /\ connTimer' = [connTimer EXCEPT ![s] = FALSE]
    /\ clientState' = "connected"
    /\ reconnectAttempts' = 0
    /\ sinceClose' = Emitted({"connected"})
    /\ lostConn' = FALSE
    /\ tries' = 0
    /\ UNCHANGED <<autoReconnect, socket, nsock, rtimers, requestId, issued,
                   pendingRequests, reqTimer, outcome, appClosed, openedSince>>
    /\ UNCHANGED nodeRest

\* socket.on('end'): the peer closed its end.
OnEnd(s) ==
    /\ sockSt[s] = "open"
    /\ sockSt' = [sockSt EXCEPT ![s] = "ended"]
    /\ handleDisconnect({})
    /\ UNCHANGED <<autoReconnect, socket, nsock, connTimer, requestId, issued,
                   appClosed, openedSince>>
    /\ UNCHANGED nodeRest

\* socket.on('error'): the connection attempt or the open socket failed.
OnError(s) ==
    /\ sockSt[s] \in {"connecting", "open", "ended"}
    /\ sockSt' = [sockSt EXCEPT ![s] = "closing"]
    /\ connTimer' = [connTimer EXCEPT ![s] = FALSE]
    /\ IF clientState = "connecting"
         THEN \* reject(error)
              /\ sinceClose' = Emitted({"error"})
              /\ UNCHANGED <<clientState, reconnectAttempts, rtimers,
                             pendingRequests, reqTimer, outcome, lostConn, tries>>
         ELSE handleDisconnect({"error"})
    /\ UNCHANGED <<autoReconnect, socket, nsock, requestId, issued, appClosed,
                   openedSince>>
    /\ UNCHANGED nodeRest

\* socket.on('close'): the last event of a socket.
OnClose(s) ==
    /\ sockSt[s] \in {"ended", "closing"}
    /\ sockSt' = [sockSt EXCEPT ![s] = "closed"]
    /\ handleDisconnect({})
    /\ UNCHANGED <<autoReconnect, socket, nsock, connTimer, requestId, issued,
                   appClosed, openedSince>>
    /\ UNCHANGED nodeRest

\* The connection timeout of connect(): socket.destroy() and reject.
OnConnectionTimeout(s) ==
    /\ connTimer[s]
    /\ connTimer' = [connTimer EXCEPT ![s] = FALSE]
    /\ sockSt' = Destroyed(s)
    /\ UNCHANGED <<autoReconnect, clientState, socket, nsock,
                   reconnectAttempts, rtimers, requestId, issued,
                   pendingRequests, reqTimer, outcome, appClosed, sinceClose,
                   openedSince, lostConn, tries>>
    /\ UNCHANGED nodeRest

\* The timer set by handleDisconnect fires: this.connect().catch(log).
OnReconnectTimer ==
    /\ rtimers > 0
    /\ nsock < MaxSockets
    /\ rtimers' = rtimers - 1
    /\ IF clientState \in {"connected", "connecting"}
         THEN \* 'Already connected', or 'Connection already in progress'
              UNCHANGED <<clientState, socket, nsock, sockSt, connTimer,
                          openedSince, tries>>
         ELSE /\ OpenSocket
              /\ openedSince' = (appClosed.how # "no")
              /\ tries' = tries + 1
    /\ UNCHANGED <<autoReconnect, reconnectAttempts, requestId, issued,
                   pendingRequests, reqTimer, outcome, appClosed, sinceClose,
                   lostConn>>
    /\ UNCHANGED nodeRest

\* request(): the id is ++this.requestId; the timeout is armed, the entry
\* stored and the line written.  send() throws if this.socket is null,
\* which rejects the promise and leaves the entry and its timer behind.
request ==
    /\ clientState = "connected"
    /\ requestId < MaxRequests
    /\ requestId' = requestId + 1
    /\ issued' = Append(issued, requestId + 1)
    /\ pendingRequests' = pendingRequests \cup {requestId + 1}
    /\ reqTimer' = reqTimer \cup {requestId + 1}
    /\ outcome' = IF socket = 0
                    THEN Settle(requestId + 1, Failure("Socket not initialized"))
                    ELSE outcome
    /\ UNCHANGED <<autoReconnect, clientState, socket, nsock, sockSt,
                   connTimer, reconnectAttempts, rtimers, appClosed,
                   sinceClose, openedSince, lostConn, tries>>
    /\ UNCHANGED nodeRest

\* socket.on('data') with one line, a success or error response carrying
\* id: handleMessage looks the id up in pendingRequests.
handleMessage(s, id) ==
    /\ sockSt[s] = "open"
    /\ IF id \in pendingRequests
         THEN /\ reqTimer' = reqTimer \ {id}
              /\ pendingRequests' = pendingRequests \ {id}
              /\ outcome' = Settle(id, Answer(id))
         ELSE UNCHANGED <<reqTimer, pendingRequests, outcome>>
    /\ UNCHANGED <<autoReconnect, clientState, socket, nsock, sockSt,
                   connTimer, reconnectAttempts, rtimers, requestId, issued,
                   appClosed, sinceClose, openedSince, lostConn, tries>>
    /\ UNCHANGED nodeRest

\* The timeout of a request fires.
OnRequestTimeout(id) ==
    /\ id \in reqTimer
    /\ reqTimer' = reqTimer \ {id}
    /\ pendingRequests' = pendingRequests \ {id}
    /\ outcome' = Settle(id, Failure("Request timeout"))
    /\ UNCHANGED <<autoReconnect, clientState, socket, nsock, sockSt,
                   connTimer, reconnectAttempts, rtimers, requestId, issued,
                   appClosed, sinceClose, openedSince, lostConn, tries>>
    /\ UNCHANGED nodeRest

\* C32: after disconnect() on a connected client the state is 'closed' and
\* stays so, the socket has been destroyed, no request is pending, and the
\* 'disconnected' of that call is the last event of the connection's life
\* the client emits ('connected', 'disconnected', 'reconnecting'), whatever
\* the sockets do.  (A socket 'error' is passed on as the client's 'error'
\* in every state; that event is not counted here.)
C32_DisconnectIsFinal ==
    appClosed.how = "connected" =>
        /\ clientState = "closed"
        /\ socket = 0
        /\ appClosed.sock # 0
        /\ sockSt[appClosed.sock] \in {"closing", "closed"}
        /\ pendingRequests = {}
        /\ sinceClose \subseteq {"error"}

\* The client has stopped trying: no reconnect timer is scheduled, no
\* socket is connecting and none has an event to deliver.
Quiet ==
    /\ rtimers = 0
    /\ \A s \in Sockets : sockSt[s] \in {"none", "closed"}

\* C33: with autoReconnect, after an established connection is lost the
\* client keeps retrying connect() until a connection succeeds or
\* maxReconnectAttempts attempts have been made, so it is never quiet with
\* fewer attempts behind it; without autoReconnect it never schedules a
\* reconnection and never emits 'reconnecting'.
C33_ReconnectRepeats ==
    /\ ~autoReconnect =>
          /\ rtimers = 0
          /\ reconnectAttempts = 0
          /\ clientState # "reconnecting"
    /\ (autoReconnect /\ lostConn /\ tries < MaxAttempts) => ~Quiet

\* C38: after the application's disconnect() the client stays 'closed' and
\* opens no socket until the application calls connect() again.
C38_NoReconnectAfterDisconnect ==
    appClosed.how # "no" =>
        /\ clientState = "closed"
        /\ ~openedSince

\* The promise of request id was settled by the response carrying r.
AnsweredBy(id, r) ==
    \E k \in DOMAIN outcome[id] : outcome[id][k] = Answer(r)

\* C34: every request the client has issued is either pending with its
\* timeout armed, or was settled exactly once, by the response carrying its
\* own id, by its timeout or by the loss or the closing of the connection;
\* no response settles a request with another id, and no id is issued
\* twice.
C34_SettledOnceById ==
    /\ \A id \in Ids :
          /\ id > requestId => outcome[id] = <<>> /\ id \notin pendingRequests
          /\ (id <= requestId /\ id \in pendingRequests) =>
                outcome[id] = <<>> /\ id \in reqTimer
          /\ (id <= requestId /\ id \notin pendingRequests) =>
                /\ Len(outcome[id]) = 1
                /\ outcome[id][1] \in
                      {Answer(id), Failure("Request timeout"),
                       Failure("Client disconnected"), Failure("Connection lost")}
          /\ \A r \in Ids : AnsweredBy(id, r) => r = id
    /\ \A i, j \in DOMAIN issued : i # j => issued[i] # issued[j]

\* Notifier w puts bytes on the stream in this step: its body is written
\* through, or its Flush succeeds.
PutsBytes(w) ==
    \/ wpos[w] = "data" /\ wpos'[w] = "nl" /\ wire' # wire
    \/ wpos[w] = "flush" /\ wres'[w] = "ok"

\* C35: once NotificationManager.Close() has returned, no Send puts
\* notification bytes on the stream, a Send that began before Close
\* included.
C35_NoWriteAfterClose ==
    [][ncloses > 0 => \A w \in Notifiers : ~PutsBytes(w)]_vars

\* The composed handler has returned the error TimeoutMiddleware makes for
\* a request that ran out of time.
ReturnedTimeout ==
    /\ MwReturned
    /\ At(chain, "timeout") > 0
    /\ ret = Through(OuterSeg(chain), TimeoutError, loggerPanics)

\* C36: TimeoutMiddleware returns the "request timeout" error only when the
\* timer of its context has fired, never merely because the context of the
\* connection was cancelled while the handler ran.
C36_TimeoutOnlyAfterDeadline ==
    ReturnedTimeout => tctx = "deadline"

\* The goroutine started by TimeoutMiddleware holds the pair its handler
\* returned and has not sent it yet.
Delivering == ipc = "sending"

\* C40: once the inner handler has returned, the goroutine started by
\* TimeoutMiddleware can always deliver its result and end, whether or not
\* the caller still waits for it: the send on resultChan never blocks.
C40_DeliveryNeverBlocks ==
    (Delivering /\ ~mwcrashed) => ENABLED MwSend

\* The handler returned after the caller gave up on it, and its goroutine
\* has ended all the same.
C40_Witness ==
    /\ ipc = "done"
    /\ MwReturned
    /\ tctx # "none"
    /\ resultChan # NoOutcome
    /\ \E i, j \in DOMAIN mwlog :
          i < j /\ mwlog[i] = "return" /\ mwlog[j] = "complete"

\* Start() has returned: acceptLoop left its loop.
StartReturned == apc = "done"

\* C39: a Start() called after Stop() has returned comes back without
\* having accepted a connection and without a listener left open.
C39_StartAfterStop ==
    (lateStart /\ StartReturned) =>
        /\ listener # "open"
        /\ \A c \in Conns : ~Accepted(c) /\ client[c] # "connected"

(***************************************************************************)
(* Registration on a server that already has connections (server.go,       *)
(* connection.go).  The registry is reached through a pointer every        *)
(* connection shares; the middleware slice is handed to newConnection when *)
(* the connection is built.  Each call below runs after the previous one   *)
(* has returned.                                                           *)
(***************************************************************************)
NoDispatch == [conn |-> NoConn, method |-> "", ok |-> FALSE, handler |-> "nil",
               through |-> <<>>]

\* NewServer: no middleware, an empty registry, no connection.
ShareIdle ==
    /\ sMiddleware = <<>>
    /\ sHandlers = [m \in MethodNames |-> "absent"]
    /\ served = {}
    /\ cMiddleware = [c \in Conns |-> <<>>]
    /\ dispatched = NoDispatch

ShareInit == ShareIdle

\* s.middleware = append(s.middleware, mw)
RegisterMiddleware(mw) ==
    /\ Len(sMiddleware) < MaxMw
    /\ sMiddleware' = Append(sMiddleware, mw)
    /\ UNCHANGED <<sHandlers, served, cMiddleware, dispatched>>
    /\ UNCHANGED shareRest

\* s.registry.Register(method, handler)
RegisterHandler(m, h) ==
    /\ sHandlers[m] # h
    /\ sHandlers' = [sHandlers EXCEPT ![m] = h]
    /\ UNCHANGED <<sMiddleware, served, cMiddleware, dispatched>>
    /\ UNCHANGED shareRest

\* handleConnection: conn := newConnection(netConn, s.registry, s.middleware, s)
\* keeps the slice s.middleware is at this moment.
NewConnection(c) ==
    /\ c \notin served
    /\ served' = served \cup {c}
    /\ cMiddleware' = [cMiddleware EXCEPT ![c] = sMiddleware]
    /\ UNCHANGED <<sMiddleware, sHandlers, dispatched>>
    /\ UNCHANGED shareRest

\* handleRequest: c.registry.Get(req.Method), then the handler is wrapped in
\* c.middleware from the last to the first; a method without handler gets
\* the method-not-found error and no middleware runs.
Dispatch(c, m) ==
    /\ c \in served
    /\ dispatched' =
          IF sHandlers[m] = "absent"
            THEN [conn |-> c, method |-> m, ok |-> FALSE, handler |-> "nil",
                  through |-> <<>>]
            ELSE [conn |-> c, method |-> m, ok |-> TRUE,
                  handler |-> sHandlers[m], through |-> cMiddleware[c]]
    /\ dispatched' # dispatched
    /\ UNCHANGED <<sMiddleware, sHandlers, served, cMiddleware>>
    /\ UNCHANGED shareRest

\* A request for a registered method is dispatched in this step.
Dispatches ==
    /\ dispatched' # dispatched
    /\ sHandlers[dispatched'.method] # "absent"

\* C37: a request dispatched after RegisterMiddleware(mw) or
\* RegisterHandler(m, h) has returned runs through every registered
\* middleware and reaches the registered handler, on every connection, also
\* on one built before the registration.
C37_RegistrationReachesAll ==
    [][Dispatches =>
          /\ dispatched'.handler = sHandlers[dispatched'.method]
          /\ dispatched'.through = sMiddleware]_vars

(***************************************************************************)
(* Specifications.                                                         *)
(*   Spec           one connection in isolation                            *)
(*   FairSpec       Spec; every goroutine keeps running, handlers return   *)
(*   ServeFairSpec  Spec; every goroutine keeps running, a handler may     *)
(*                  take for ever                                          *)
(*   ServerSpec     the server shell with its clients                      *)
(*   FairServerSpec ServerSpec; every goroutine keeps running, handlers    *)
(*                  return                                                 *)
(*   CloseSpec      Spec while no request line arrives                     *)
(*   SerialSpec     Spec with Serve's deferred call the only Close()       *)
(*   LineSpec       SerialSpec without the notifier, the peer writing      *)
(*                  lines that may carry result and error members          *)
(*   MwSpec         one call through a chain of the provided middleware    *)
(*   RegSpec        the handler registry under concurrent use              *)
(*   WrSpec         the write path: Serve's responses and the notifier     *)
(*   BcSpec         one Broadcast over a changing set of connections       *)
(*   CtxSpec        Spec with requests only and no notifier                *)
(*   ErrSpec        ToRPCError on every handler error                      *)
(*   ChainSpec      Chain on every short middleware list                   *)
(*   MsgSpec        the predicates of Message on every message             *)
(*   StopSpec       concurrent callers of Server.Stop                      *)
(*   SetSpec        Add / Remove / Count / Clear on the broadcast set      *)
(*   CodecSpec      readers and writers of one codec                       *)
(*   FrameSpec      ReadMessage on every short stream                      *)
(*   TableSpec      the handler registry used from one goroutine           *)
(*   CodeSpec       ErrorFromCode on the codes around the reserved band    *)
(*   NodeSpec       the Node client, its sockets and its timers            *)
(*   ShareSpec      registrations on a server that has connections         *)
(***************************************************************************)
ServeStep == ServeSelect \/ ServeReadFault \/ ServeReadLine \/ ServeExit
                \/ CloseCall(ServeCaller)

CloseStep == \E t \in CloseCallers :
                CloseSignal(t) \/ CloseCancel(t) \/ CloseNotifier(t)
                    \/ CloseStream(t) \/ CloseWait(t)

\* Nothing happens in the parts a specification does not exercise.
FnIdle == ErrIdle /\ ChainIdle /\ MsgIdle /\ StopIdle /\ SetIdle /\ CodecIdle /\ FrameIdle /\ TableIdle /\ CodeIdle /\ NodeIdle /\ ShareIdle

AuxIdle == MwIdle /\ RegIdle /\ WrIdle /\ BcIdle /\ FnIdle

\* The connection, the server and the parts above, all untouched.
BaseIdle == ConnInit /\ middleware = <<>> /\ SrvInit /\ MwIdle /\ RegIdle /\ WrIdle /\ BcIdle

Init == ConnInit /\ SrvInit /\ AuxIdle

Next ==
    \/ PeerSend
    \/ PeerClose
    \/ ServeSelect
    \/ ServeReadFault
    \/ ServeReadLine
    \/ HandlerReturn
    \/ ServeExit
    \/ \E t \in CloseCallers : CloseCall(t)
    \/ \E t \in CloseCallers : CloseSignal(t)
    \/ \E t \in CloseCallers : CloseCancel(t)
    \/ \E t \in CloseCallers : CloseNotifier(t)
    \/ \E t \in CloseCallers : CloseStream(t)
    \/ \E t \in CloseCallers : CloseWait(t)
    \/ CancelCtx
    \/ NotifyCheck
    \/ NotifyWrite

Spec == Init /\ [][Next]_vars

FairSpec ==
    /\ Spec
    /\ WF_vars(ServeStep)
    /\ WF_vars(CloseStep)
    /\ WF_vars(HandlerReturn)
    /\ WF_vars(NotifyWrite)

ServeFairSpec ==
    /\ Spec
    /\ WF_vars(ServeStep)
    /\ WF_vars(CloseStep)
    /\ WF_vars(NotifyWrite)

\* The connection while no request line arrives: Serve, the peer closing its
\* end, the owner cancelling the context, the notifier, and every Close()
\* caller.
CloseNext ==
    \/ PeerClose
    \/ ServeSelect
    \/ ServeReadFault
    \/ ServeExit
    \/ \E t \in CloseCallers : CloseCall(t)
    \/ \E t \in CloseCallers : CloseSignal(t)
    \/ \E t \in CloseCallers : CloseCancel(t)
    \/ \E t \in CloseCallers : CloseNotifier(t)
    \/ \E t \in CloseCallers : CloseStream(t)
    \/ \E t \in CloseCallers : CloseWait(t)
    \/ CancelCtx
    \/ NotifyCheck
    \/ NotifyWrite

CloseSpec == Init /\ [][CloseNext]_vars

\* The connection while Serve's deferred call is the only call of Close():
\* the peer, Serve and the handlers, the owner cancelling the context, and
\* the notifier.
SerialNext ==
    \/ PeerSend
    \/ PeerClose
    \/ ServeSelect
    \/ ServeReadFault
    \/ ServeReadLine
    \/ HandlerReturn
    \/ ServeExit
    \/ CloseCall(ServeCaller)
    \/ CloseSignal(ServeCaller)
    \/ CloseCancel(ServeCaller)
    \/ CloseNotifier(ServeCaller)
    \/ CloseStream(ServeCaller)
    \/ CancelCtx
    \/ NotifyCheck
    \/ NotifyWrite

SerialSpec == Init /\ [][SerialNext]_vars

\* The connection reading lines of every shape, with Serve's deferred call
\* the only call of Close() and no notifier: the peer, Serve and the
\* handlers, and the owner cancelling the context.
LineNext ==
    \/ PeerSendShaped
    \/ PeerClose
    \/ ServeSelect
    \/ ServeReadFault
    \/ ServeReadLine
    \/ HandlerReturn
    \/ ServeExit
    \/ CloseCall(ServeCaller)
    \/ CloseSignal(ServeCaller)
    \/ CloseCancel(ServeCaller)
    \/ CloseNotifier(ServeCaller)
    \/ CloseStream(ServeCaller)
    \/ CancelCtx

LineSpec == Init /\ [][LineNext]_vars

\* In the server model the single connection of Spec is left untouched,
\* with no middleware configured.
ServerInit == ConnInit /\ middleware = <<>> /\ SrvInit /\ AuxIdle

AcceptStep == StartCall \/ AcceptCheck \/ AcceptError \/ AcceptSpawn
                \/ \E c \in Conns : Accept(c)

ConnStep(c) ==
    \/ HCStore(c) \/ HCAdd(c) \/ SrvServeSelect(c) \/ SrvServeRead(c)
    \/ SrvServeReadFault(c) \/ SrvHandlerReturn(c) \/ SrvServeReturn(c)
    \/ HCDelete(c) \/ HCRemove(c) \/ HCDisconnect(c)

StopStep == StopCloseListener \/ WaitGroupDone \/ StopGraceful \/ StopForce
               \/ StopForcedWait \/ StopReturn

ServerNext ==
    \/ StartCall
    \/ AcceptCheck
    \/ \E c \in Conns : Accept(c)
    \/ AcceptError
    \/ AcceptSpawn
    \/ \E c \in Conns : HCStore(c)
    \/ \E c \in Conns : HCAdd(c)
    \/ \E c \in Conns : SrvServeSelect(c)
    \/ \E c \in Conns : SrvServeRead(c)
    \/ \E c \in Conns : SrvServeReadFault(c)
    \/ \E c \in Conns : SrvHandlerReturn(c)
    \/ \E c \in Conns : SrvServeReturn(c)
    \/ \E c \in Conns : HCDelete(c)
    \/ \E c \in Conns : HCRemove(c)
    \/ \E c \in Conns : HCDisconnect(c)
    \/ StopCall
    \/ StopCloseListener
    \/ WaitGroupDone
    \/ StopGraceful
    \/ StopForce
    \/ StopForcedWait
    \/ StopReturn
    \/ StopCtxExpire
    \/ \E c \in Conns : ClientDial(c)
    \/ \E c \in Conns : ClientSend(c)
    \/ \E c \in Conns : ClientClose(c)

ServerSpec == ServerInit /\ [][ServerNext]_vars

FairServerSpec ==
    /\ ServerSpec
    /\ WF_vars(AcceptStep)
    /\ \A c \in Conns : WF_vars(ConnStep(c))
    /\ WF_vars(StopStep)

\* One call of a composed handler, for every arrangement of the middleware.
MwSpecInit == ConnInit /\ middleware = <<>> /\ SrvInit /\ MwInit /\ RegIdle /\ WrIdle /\ BcIdle /\ FnIdle

MwNext ==
    \/ MwCall
    \/ \E d \in HandlerDoes : MwHandleInline(d)
    \/ \E d \in HandlerDoes : MwHandleSpawned(d)
    \/ MwSend
    \/ MwDeadline
    \/ MwParentCancel
    \/ MwSelect
    \/ MwRespond

MwSpec == MwSpecInit /\ [][MwNext]_vars


\* The registry under a registering goroutine and looking-up goroutines.
RegSpecInit == ConnInit /\ middleware = <<>> /\ SrvInit /\ MwIdle /\ RegIdle /\ WrIdle /\ BcIdle /\ FnIdle

RegNext ==
    \/ \E op \in RegWrites : RegWriteBegin(op)
    \/ RegWriteEnd
    \/ \E r \in Lookers, op \in RegReads : RegReadBegin(r, op)
    \/ \E r \in Lookers : RegReadEnd(r)

RegSpec == RegSpecInit /\ [][RegNext]_vars


\* The write path: Serve's responses, concurrent Notify callers, the
\* notifier being closed and the stream failing.
WrSpecInit == ConnInit /\ middleware = <<>> /\ SrvInit /\ MwIdle /\ RegIdle /\ WrIdle /\ BcIdle /\ FnIdle

WrNext ==
    \/ WrServeBegin
    \/ \E w \in Notifiers : WrSendBegin(w)
    \/ \E w \in Notifiers : WrSendCheck(w)
    \/ \E w \in Notifiers : WrNmLock(w)
    \/ \E w \in Writers : WrLock(w)
    \/ \E w \in Writers : WrData(w)
    \/ \E w \in Writers : WrNewline(w)
    \/ \E w \in Writers : WrFlush(w)
    \/ \E w \in Writers : WrUnlock(w)
    \/ \E w \in Notifiers : WrNmUnlock(w)
    \/ WrStreamClose
    \/ WrNmClose

WrSpec == WrSpecInit /\ [][WrNext]_vars


\* One Broadcast over a changing membership.
BcSpecInit == ConnInit /\ middleware = <<>> /\ SrvInit /\ MwIdle /\ RegIdle /\ WrIdle /\ BcIdle /\ FnIdle

BcNext ==
    \/ \E c \in Conns : BcAdd(c)
    \/ \E c \in Conns : BcRemove(c)
    \/ \E c \in Conns : BcConnClose(c)
    \/ \E c \in Conns : BcPeerGone(c)
    \/ BcBroadcast
    \/ \E c \in Conns : BcVisit(c)
    \/ BcWrite
    \/ BcReturn

BcSpec == BcSpecInit /\ [][BcNext]_vars


\* handleRequest's error path for one request.
ErrSpecInit == BaseIdle /\ ErrInit /\ ChainIdle /\ MsgIdle /\ StopIdle /\ SetIdle /\ CodecIdle /\ FrameIdle /\ TableIdle /\ CodeIdle /\ NodeIdle /\ ShareIdle

ErrNext ==
    \/ \E e \in HandlerErrors : ErrHandlerReturns(e)
    \/ ErrSendError

ErrSpec == ErrSpecInit /\ [][ErrNext]_vars


\* The composition of a middleware list and one call of the result.
ChainSpecInit == BaseIdle /\ ErrIdle /\ ChainInit /\ MsgIdle /\ StopIdle /\ SetIdle /\ CodecIdle /\ FrameIdle /\ TableIdle /\ CodeIdle /\ NodeIdle /\ ShareIdle

ChainNext ==
    \/ ChainWrap
    \/ ChainInvoke
    \/ ChainBefore
    \/ ChainHandle
    \/ ChainAfter
    \/ ChainDone

ChainSpec == ChainSpecInit /\ [][ChainNext]_vars


\* The classification of one decoded Message.
MsgSpecInit == BaseIdle /\ ErrIdle /\ ChainIdle /\ MsgInit /\ StopIdle /\ SetIdle /\ CodecIdle /\ FrameIdle /\ TableIdle /\ CodeIdle /\ NodeIdle /\ ShareIdle

MsgNext == MsgClassify

MsgSpec == MsgSpecInit /\ [][MsgNext]_vars


\* Stop called by several goroutines.
StopSpecInit == BaseIdle /\ ErrIdle /\ ChainIdle /\ MsgIdle /\ StopInit /\ SetIdle /\ CodecIdle /\ FrameIdle /\ TableIdle /\ CodeIdle /\ NodeIdle /\ ShareIdle

StopNext ==
    \/ \E t \in Stoppers : StopEnter(t)
    \/ \E t \in Stoppers : StopSignal(t)
    \/ \E t \in Stoppers : StopListener(t)
    \/ \E t \in Stoppers : StopDone(t)
    \/ \E t \in Stoppers : StopTimeout(t)
    \/ \E t \in Stoppers : StopCancel(t)
    \/ \E t \in Stoppers : StopCleanup(t)
    \/ \E t \in Stoppers : StopUnblock(t)
    \/ \E t \in Stoppers : StopReturnErr(t)
    \/ StopConnsFinish
    \/ StopDeadlineExpires

StopSpec == StopSpecInit /\ [][StopNext]_vars


\* The membership of a BroadcastManager used by several goroutines.
SetSpecInit == BaseIdle /\ ErrIdle /\ ChainIdle /\ MsgIdle /\ StopIdle /\ SetIdle /\ CodecIdle /\ FrameIdle /\ TableIdle /\ CodeIdle /\ NodeIdle /\ ShareIdle

SetNext ==
    \/ \E c \in Conns : Add(c)
    \/ \E c \in Conns : Remove(c)
    \/ CountCall
    \/ \E c \in Conns : CountVisit(c)
    \/ CountReturn
    \/ ClearCall
    \/ \E c \in Conns : ClearVisit(c)
    \/ ClearReturn

SetSpec == SetSpecInit /\ [][SetNext]_vars


\* One codec used by several readers and several writers.
CodecSpecInit == BaseIdle /\ ErrIdle /\ ChainIdle /\ MsgIdle /\ StopIdle /\ SetIdle /\ CodecIdle /\ FrameIdle /\ TableIdle /\ CodeIdle /\ NodeIdle /\ ShareIdle

CodecNext ==
    \/ \E r \in CodecReaders : CodecReadCall(r)
    \/ \E r \in CodecReaders : CodecReadLock(r)
    \/ \E r \in CodecReaders : CodecReadBytes(r)
    \/ \E r \in CodecReaders : CodecReadUnlock(r)
    \/ \E w \in CodecWriters : CodecWriteCall(w)
    \/ \E w \in CodecWriters : CodecWriteLock(w)
    \/ \E w \in CodecWriters : CodecFlush(w)
    \/ \E w \in CodecWriters : CodecWriteUnlock(w)
    \/ CodecPeerWrites
    \/ CodecPeerStalls

CodecSpec == CodecSpecInit /\ [][CodecNext]_vars


\* ReadMessage on every short stream.
FrameSpecInit == BaseIdle /\ ErrIdle /\ ChainIdle /\ MsgIdle /\ StopIdle /\ SetIdle /\ CodecIdle /\ FrameInit /\ TableIdle /\ CodeIdle /\ NodeIdle /\ ShareIdle

FrameNext == ReadMessageCall

FrameSpec == FrameSpecInit /\ [][FrameNext]_vars


\* The connection with handlers running while other goroutines call
\* Close(): the peer writing requests for a registered method, Serve and
\* the handlers, and every Close() caller.
CtxNext ==
    \/ PeerSendRequest
    \/ PeerClose
    \/ ServeSelect
    \/ ServeReadFault
    \/ ServeReadLine
    \/ HandlerReturn
    \/ ServeExit
    \/ \E t \in CloseCallers : CloseCall(t)
    \/ \E t \in CloseCallers : CloseSignal(t)
    \/ \E t \in CloseCallers : CloseCancel(t)
    \/ \E t \in CloseCallers : CloseNotifier(t)
    \/ \E t \in CloseCallers : CloseStream(t)
    \/ \E t \in CloseCallers : CloseWait(t)

CtxSpec == Init /\ [][CtxNext]_vars


\* The registry used from one goroutine.
TableSpecInit == BaseIdle /\ ErrIdle /\ ChainIdle /\ MsgIdle /\ StopIdle /\ SetIdle /\ CodecIdle /\ FrameIdle /\ TableIdle /\ CodeIdle /\ NodeIdle /\ ShareIdle

TableNext ==
    \/ \E m \in MethodNames, h \in HandlerValues : Register(m, h)
    \/ \E m \in MethodNames : Unregister(m)
    \/ Clear
    \/ \E m \in MethodNames : Get(m)

TableSpec == TableSpecInit /\ [][TableNext]_vars


\* ErrorFromCode on every code tried.
CodeSpecInit == BaseIdle /\ ErrIdle /\ ChainIdle /\ MsgIdle /\ StopIdle /\ SetIdle /\ CodecIdle /\ FrameIdle /\ TableIdle /\ CodeInit /\ NodeIdle /\ ShareIdle

CodeNext == ErrorFromCodeCall

CodeSpec == CodeSpecInit /\ [][CodeNext]_vars


\* The Node client with its application, its sockets and its timers.
NodeSpecInit == BaseIdle /\ ErrIdle /\ ChainIdle /\ MsgIdle /\ StopIdle /\ SetIdle /\ CodecIdle /\ FrameIdle /\ TableIdle /\ CodeIdle /\ NodeInit /\ ShareIdle

NodeNext ==
    \/ connect
    \/ disconnect
    \/ request
    \/ \E s \in Sockets : OnConnect(s)
    \/ \E s \in Sockets : OnEnd(s)
    \/ \E s \in Sockets : OnError(s)
    \/ \E s \in Sockets : OnClose(s)
    \/ \E s \in Sockets : OnConnectionTimeout(s)
    \/ OnReconnectTimer
    \/ \E s \in Sockets, id \in Ids : handleMessage(s, id)
    \/ \E id \in Ids : OnRequestTimeout(id)

NodeSpec == NodeSpecInit /\ [][NodeNext]_vars

\* Registrations, connections and dispatched requests of one server.
ShareSpecInit == BaseIdle /\ ErrIdle /\ ChainIdle /\ MsgIdle /\ StopIdle /\ SetIdle /\ CodecIdle /\ FrameIdle /\ TableIdle /\ CodeIdle /\ NodeIdle /\ ShareInit

ShareNext ==
    \/ \E mw \in {"logging", "recovery"} : RegisterMiddleware(mw)
    \/ \E m \in MethodNames, h \in HandlerValues : RegisterHandler(m, h)
    \/ \E c \in Conns : NewConnection(c)
    \/ \E c \in Conns, m \in MethodNames : Dispatch(c, m)

ShareSpec == ShareSpecInit /\ [][ShareNext]_vars

=============================================================================
